---- MODULE Spec2Model ----
(***************************************************************************)
(* Model of the reporting scripts of mce-operator-bundle:                  *)
(*   scripts/scan_cves.py, scripts/verify_images.py,                       *)
(*   scripts/slack_cve_report.py, scripts/check_dummy_shas.py,             *)
(*   scripts/list_images.py and scripts/image_report.py.                   *)
(* Python dicts are modelled with their insertion order (field order) and  *)
(* their mapping (field val); Python lists are sequences; None is the      *)
(* record NoneVal.                                                         *)
(***************************************************************************)
EXTENDS Integers, Sequences, FiniteSets, TLC

VARIABLES
    \* ---- slack_cve_report.compare_scan_results -------------------------
    current_results,    \* list of result dicts built by slack main()
    previous_results,   \* dict image_key -> cve counts of the previous scan
    comparison,         \* value returned by compare_scan_results
    reverse,            \* value returned with the two sides exchanged
    cmp_pc,             \* "input" before the call; then "done", "both" or "self"
    \* ---- the two structured parsers ------------------------------------
    artifact,           \* content of one {version}_{image-key}_trivy.json file
    cve_data,           \* value returned by slack_cve_report.parse_trivy_json
    vuln_data,          \* value returned by scan_cves.parse_trivy_json_for_counts
    vuln_count,         \* value returned by scan_cves.count_vulnerabilities
    parse_pc,           \* the set of parsers that have run on the artifact
    \* ---- one run of scan_cves.py or verify_images.py, then the chat report
    prog,               \* "scan_cves" or "verify_images"
    tool_available,     \* check_trivy_available() / check_tool_available(tool)
    extras_exists,      \* Path(extras_dir).exists()
    manifests,          \* sorted(extras_path.glob('*.json')), each with its content
    format_type,        \* 'json' or 'table' (OUTPUT_JSON)
    use_podman,         \* USE_PODMAN of verify_images
    pc,                 \* position of main()
    file_idx,           \* index of json_file in json_files
    img_idx,            \* index of image in images
    calls,              \* external invocations made for the current image
    scan_result,        \* value returned by scan_image_trivy / verify_func
    total_images,       \* total_images (scan_cves), total (verify_images)
    scanned,            \* scanned (scan_cves), passed (verify_images)
    failed,             \* failed
    results,            \* rows collected for the results table of the current file
    summaries,          \* summary / report file written for each manifest file
    reports,            \* scan artifacts in the reports directory, by path
    exit_code,          \* exit status of the process, -1 while it runs
    slack_pc,           \* position of slack_cve_report main()
    \* ---- check_dummy_shas: the classification of one digest ------------
    digest,             \* image.get('image-digest', ''), a string
    issue_type,         \* the issue type main() records for it, "none" if none
    digest_pc,          \* "input" before the digest is checked, then "checked"
    \* ---- apply_icsp_redirect -------------------------------------------
    image_ref,          \* the reference handed to apply_icsp_redirect
    icsp_mirrors,       \* value of load_icsp_config: None or a list of rules
    redirect,           \* the pair apply_icsp_redirect returns
    redirect_pc,        \* "input" before the call, then "done"
    \* ---- one run of check_dummy_shas.py, list_images.py or image_report.py
    report_prog,        \* the command that runs
    report_dir,         \* Path(extras_dir).exists()
    report_manifests,   \* sorted(extras_path.glob('*.json')), each with its content
    report_pc,          \* position of main()
    report_idx,         \* index of json_file in json_files
    found_issues,       \* found_issues of check_dummy_shas
    issues,             \* issues of check_dummy_shas
    report_out,         \* what the command printed or wrote for each manifest file
    report_exit,        \* exit status of the process, -1 while it runs
    \* ---- the name of a scan artifact, written and read back -------------
    name_version,       \* base_name of scan_cves, version of slack_cve_report
    name_key,           \* image-key of the record that is scanned
    name_ext,           \* 'json' or 'txt' (OUTPUT_JSON)
    scan_file,          \* name of the file scan_cves writes, None before
    extracted_key,      \* image_key load_previous_scan_results files the artifact under
    naming_pc,          \* "input", then "written", then "loaded"
    \* ---- slack_cve_report: the message and its delivery -----------------
    send_mode,          \* "threaded", "webhook" or "none" (main lines 834-844)
    slack_format,       \* SLACK_FORMAT: 'summary' or 'detailed'
    name_len,           \* len(image_key) of every image
    ref_len,            \* len of the full reference in image_details, 0 if none
    message_data,       \* value returned by create_slack_message
    posts,              \* the requests made to Slack, in order, with their responses
    parent_ts,          \* parent_ts of send_to_slack_threaded
    send_pc,            \* position of main() and of the send function
    send_exit           \* exit status of the process, -1 while it runs

cmpVars == <<current_results, previous_results, comparison, reverse, cmp_pc>>

parseVars == <<artifact, cve_data, vuln_data, vuln_count, parse_pc>>

inputVars == <<prog, tool_available, extras_exists, manifests, format_type, use_podman>>

loopVars == <<file_idx, img_idx, calls, scan_result, total_images, scanned, failed, results>>

runVars == <<inputVars, loopVars, pc, summaries, reports, exit_code, slack_pc>>

digestVars == <<digest, issue_type, digest_pc>>

redirectVars == <<image_ref, icsp_mirrors, redirect, redirect_pc>>

reportVars == <<report_prog, report_dir, report_manifests, report_pc, report_idx,
                found_issues, issues, report_out, report_exit>>

namingVars == <<name_version, name_key, name_ext, scan_file, extracted_key, naming_pc>>

slackVars == <<send_mode, slack_format, name_len, ref_len, message_data, posts, parent_ts,
               send_pc, send_exit>>

\* the variables of the commands that take no part in a scan
otherVars == <<digestVars, redirectVars, reportVars, namingVars, slackVars>>

vars == <<cmpVars, parseVars, runVars, otherVars>>

(***************************************************************************)
(* Bounds of the model.                                                    *)
(***************************************************************************)
\* largest number of vulnerability entries one scan artifact holds
MaxCount == 1

\* largest number of vulnerability entries of a parsed artifact
MaxVulns == 2

\* largest number of image records in one manifest file
MaxImages == 2

\* image keys, in the order sorted() gives their artifact file names
KeyOrder == <<"imgA", "imgB">>

Keys == {KeyOrder[i] : i \in 1..Len(KeyOrder)}

(***************************************************************************)
(* Python values.                                                          *)
(***************************************************************************)
NoneVal == [kind |-> "None"]

IsNone(v) == v = NoneVal

\* {} : a dict without keys
DictEmpty == [order |-> <<>>, val |-> [k \in {} |-> 0]]

DictKeys(d) == DOMAIN d.val

DictHas(d, k) == k \in DOMAIN d.val

\* d[k] = v : a new key goes last, a known key keeps its place
DictSet(d, k, v) ==
    [order |-> IF DictHas(d, k) THEN d.order ELSE Append(d.order, k),
     val   |-> [x \in DictKeys(d) \cup {k} |-> IF x = k THEN v ELSE d.val[x]]]

\* list(d.values()), in insertion order
DictValues(d) == [i \in 1..Len(d.order) |-> d.val[d.order[i]]]

\* bool(d) of a dict or None
Truthy(d) == ~IsNone(d) /\ d.order # <<>>

RECURSIVE SumSeq(_)
SumSeq(s) == IF s = <<>> THEN 0 ELSE Head(s) + SumSeq(Tail(s))

\* sum(cve.get(field, 0) for cve in d.values())
SumField(d, field) ==
    LET vs == DictValues(d)
    IN  SumSeq([i \in 1..Len(vs) |-> vs[i][field]])

\* the counts dict of one image as parse_trivy_json returns it
CveCount(c, h, m, l) ==
    [critical |-> c, high |-> h, medium |-> m, low |-> l, total |-> c + h + m + l]

(***************************************************************************)
(* slack_cve_report.compare_scan_results                                   *)
(***************************************************************************)
\* lines 94-98: current_dict, from the successful results that carry counts
RECURSIVE BuildCurrentDict(_, _)
BuildCurrentDict(cur_results, acc) ==
    IF cur_results = <<>> THEN acc
    ELSE LET result == Head(cur_results)
             next == IF result.status = "success" /\ ~IsNone(result.cve_count)
                     THEN DictSet(acc, result.image, result.cve_count)
                     ELSE acc
         IN  BuildCurrentDict(Tail(cur_results), next)

CurrentDict(cur_results) == BuildCurrentDict(cur_results, DictEmpty)

\* variant of NetChange: only the keys present on both sides are summed
NetChangeSharedOnly(current_dict, previous) ==
    LET Shared(k) == DictHas(current_dict, k) /\ DictHas(previous, k)
        cur == [order |-> SelectSeq(current_dict.order, Shared), val |-> current_dict.val]
        prv == [order |-> SelectSeq(previous.order, Shared), val |-> previous.val]
    IN  [critical |-> SumField(cur, "critical") - SumField(prv, "critical"),
         high     |-> SumField(cur, "high") - SumField(prv, "high"),
         total    |-> SumField(cur, "total") - SumField(prv, "total")]

\* lines 100-113
NetChange(current_dict, previous) ==
    [critical |-> SumField(current_dict, "critical") - SumField(previous, "critical"),
     high     |-> SumField(current_dict, "high") - SumField(previous, "high"),
     total    |-> SumField(current_dict, "total") - SumField(previous, "total")]

\* variant of NewComponents: every current key is listed as new
NewComponentsAll(current_dict, previous) == current_dict.order

\* lines 115-118
NewComponents(current_dict, previous) ==
    LET IsNew(k) == ~DictHas(previous, k)
    IN  SelectSeq(current_dict.order, IsNew)

\* variant of RemovedComponents: every previous key is listed as removed
RemovedComponentsAll(current_dict, previous) == previous.order

\* lines 120-123
RemovedComponents(current_dict, previous) ==
    LET IsGone(k) == ~DictHas(current_dict, k)
    IN  SelectSeq(previous.order, IsGone)

\* variant of SeverityWeight: medium counts too
SeverityWeightWithMedium(cve) == cve.critical + cve.high + cve.medium

\* lines 130-131: critical + high of one counts dict
SeverityWeight(cve) == cve.critical + cve.high

\* lines 134-141 and 143-150: the entry appended to improved / worsened
ChangeEntry(image_key, current_cve, prev_cve) ==
    [image         |-> image_key,
     previous      |-> SeverityWeight(prev_cve),
     current       |-> SeverityWeight(current_cve),
     delta         |-> SeverityWeight(current_cve) - SeverityWeight(prev_cve),
     prev_critical |-> prev_cve.critical,
     curr_critical |-> current_cve.critical]

\* variant of Classify: an equal weight counts as improved
ClassifyLeq(current_cve, prev_cve) ==
    IF SeverityWeight(current_cve) <= SeverityWeight(prev_cve) THEN "improved"
    ELSE "worsened"

\* variant of Classify: a higher weight is filed as unchanged
ClassifyNoWorse(current_cve, prev_cve) ==
    IF SeverityWeight(current_cve) < SeverityWeight(prev_cve) THEN "improved"
    ELSE "unchanged"

\* lines 133, 142, 151: the list a key present on both sides goes to
Classify(current_cve, prev_cve) ==
    IF SeverityWeight(current_cve) < SeverityWeight(prev_cve) THEN "improved"
    ELSE IF SeverityWeight(current_cve) > SeverityWeight(prev_cve) THEN "worsened"
    ELSE "unchanged"

\* lines 125-152: the keys of current_dict, in order, that fall in one class
SharedOfClass(current_dict, previous, class) ==
    LET InClass(k) == /\ DictHas(previous, k)
                      /\ Classify(current_dict.val[k], previous.val[k]) = class
    IN  SelectSeq(current_dict.order, InClass)

ChangeEntries(current_dict, previous, class) ==
    LET ks == SharedOfClass(current_dict, previous, class)
    IN  [i \in 1..Len(ks) |->
            ChangeEntry(ks[i], current_dict.val[ks[i]], previous.val[ks[i]])]

\* lines 64-154
compare_scan_results(cur_results, previous) ==
    IF ~Truthy(previous) THEN NoneVal
    ELSE LET current_dict == CurrentDict(cur_results)
         IN  [kind               |-> "comparison",
              new_components     |-> NewComponents(current_dict, previous),
              removed_components |-> RemovedComponents(current_dict, previous),
              improved           |-> ChangeEntries(current_dict, previous, "improved"),
              worsened           |-> ChangeEntries(current_dict, previous, "worsened"),
              unchanged          |-> SharedOfClass(current_dict, previous, "unchanged"),
              net_change         |-> NetChange(current_dict, previous)]

(***************************************************************************)
(* Structured scan artifacts (Trivy JSON).                                 *)
(* A text is modelled by its length, a vulnerability entry by the fields   *)
(* the parsers read.                                                       *)
(***************************************************************************)
\* slack_cve_report.py line 216 and 225: title[:80]
TitleCap == 80

\* slack_cve_report.py line 235: high_cves[:10]
HighDetailCap == 10

Min(a, b) == IF a < b THEN a ELSE b

\* str.upper() on the severities of the model
Upper(sev) == IF sev = "high" THEN "HIGH" ELSE sev

Severities == {"CRITICAL", "HIGH", "MEDIUM", "LOW", "UNKNOWN", "high"}

\* one element of a result's Vulnerabilities list
VulnEntries ==
    [Severity : Severities, FixedVersion : {"", "1.0"}, Title : {5, TitleCap + 10}]

\* the lists of at most MaxVulns vulnerability entries
VulnLists ==
    LET Longer(ss) == {Append(vs, x) : vs \in ss, x \in VulnEntries}
        Build[n \in 0..MaxVulns] == IF n = 0 THEN {<<>>} ELSE Longer(Build[n - 1])
    IN  UNION {Build[n] : n \in 0..MaxVulns}

\* one element of Results: the Vulnerabilities key is a list, null, or absent
ListResult(vs) == [vkind |-> "list", vulns |-> vs]

NullResult == [vkind |-> "null", vulns |-> <<>>]

AbsentResult == [vkind |-> "absent", vulns |-> <<>>]

\* the text is no JSON at all, or the file cannot be read
MalformedArtifact == [kind |-> "malformed", results |-> <<>>]

\* JSON whose top level is an array
ArrayArtifact == [kind |-> "array", results |-> <<>>]

\* a JSON object without a Results key
NoResultsArtifact == [kind |-> "object", results |-> <<>>]

\* a JSON object with Results: [...]
ObjectArtifact(rs) == [kind |-> "object", results |-> rs]

\* a JSON object whose Results hold the entries vs: in one result (k = 0), or
\* the first k of them in one result and the rest in a second one
SplitArtifact(vs, k) ==
    IF k = 0 THEN ObjectArtifact(<<ListResult(vs)>>)
    ELSE ObjectArtifact(<<ListResult(SubSeq(vs, 1, k)),
                          ListResult(SubSeq(vs, k + 1, Len(vs)))>>)

\* entries that come one more time than the detail list keeps HIGH entries
PadEntries ==
    {e \in VulnEntries : /\ e.Severity \in {"CRITICAL", "HIGH", "high"}
                         /\ e.FixedVersion = ""
                         /\ e.Title = TitleCap + 10}

\* the list vs with HighDetailCap + 1 copies of e after its first k entries
Padded(vs, e, k) ==
    SubSeq(vs, 1, k) \o [i \in 1..(HighDetailCap + 1) |-> e] \o SubSeq(vs, k + 1, Len(vs))

\* 2 CRITICAL, 3 HIGH and 1 MEDIUM entry
MixedList ==
    LET Entry(sev) == [Severity |-> sev, FixedVersion |-> "1.0", Title |-> 5]
    IN  <<Entry("HIGH"), Entry("CRITICAL"), Entry("MEDIUM"), Entry("HIGH"),
          Entry("CRITICAL"), Entry("HIGH")>>

\* the artifacts without a vulnerability list
PlainArtifacts ==
    {MalformedArtifact, ArrayArtifact, NoResultsArtifact}
      \cup {ObjectArtifact(<<r>>) : r \in {NullResult, AbsentResult}}

RECURSIVE Flatten(_)
Flatten(rs) == IF rs = <<>> THEN <<>> ELSE Head(rs).vulns \o Flatten(Tail(rs))

\* json.load raises, or iterating the document raises (a null Vulnerabilities)
LoadFails(a) == a.kind = "malformed"

HasNullVulns(a) == \E i \in 1..Len(a.results) : a.results[i].vkind = "null"

\* the number of entries of vs whose upper-cased severity is sev
CountSeverity(vs, sev) ==
    Cardinality({i \in 1..Len(vs) : Upper(vs[i].Severity) = sev})

\* the detail entry with title instead of title[:80]
DetailEntryFullTitle(vuln) ==
    [severity      |-> Upper(vuln.Severity),
     title         |-> vuln.Title,
     fixed_version |-> vuln.FixedVersion]

\* slack_cve_report.py lines 213-219 and 222-228
DetailEntry(vuln) ==
    [severity      |-> Upper(vuln.Severity),
     title         |-> Min(vuln.Title, TitleCap),
     fixed_version |-> vuln.FixedVersion]

DetailList(vs, sev) ==
    LET IsSev(v) == Upper(v.Severity) = sev
        sel == SelectSeq(vs, IsSev)
    IN  [i \in 1..Len(sel) |-> DetailEntry(sel[i])]

\* slack_cve_report.py line 242
SlackTotal(vs) ==
    CountSeverity(vs, "CRITICAL") + CountSeverity(vs, "HIGH")
        + CountSeverity(vs, "MEDIUM") + CountSeverity(vs, "LOW")

\* slack_cve_report.py lines 182-248
parse_trivy_json(a) ==
    IF LoadFails(a) \/ a.kind = "array" \/ HasNullVulns(a) THEN NoneVal
    ELSE LET vs == Flatten(a.results)
             high_cves == DetailList(vs, "HIGH")
         IN  [critical |-> CountSeverity(vs, "CRITICAL"),
              high     |-> CountSeverity(vs, "HIGH"),
              medium   |-> CountSeverity(vs, "MEDIUM"),
              low      |-> CountSeverity(vs, "LOW"),
              total    |-> SlackTotal(vs),
              details  |-> DetailList(vs, "CRITICAL")
                             \o SubSeq(high_cves, 1, Min(Len(high_cves), HighDetailCap)),
              has_fix  |-> Cardinality({i \in 1..Len(vs) : vs[i].FixedVersion # ""}),
              no_fix   |-> Cardinality({i \in 1..Len(vs) : vs[i].FixedVersion = ""})]

\* scan_cves.py line 178 and 196
ZeroCounts == [critical |-> 0, high |-> 0, medium |-> 0, low |-> 0, total |-> 0]

\* scan_cves.py lines 172-196
parse_trivy_json_for_counts(a) ==
    IF LoadFails(a) \/ a.kind = "array" \/ HasNullVulns(a) THEN ZeroCounts
    ELSE LET vs == Flatten(a.results)
         IN  [critical |-> CountSeverity(vs, "CRITICAL"),
              high     |-> CountSeverity(vs, "HIGH"),
              medium   |-> CountSeverity(vs, "MEDIUM"),
              low      |-> CountSeverity(vs, "LOW"),
              total    |-> Len(vs)]

\* scan_cves.py lines 199-215, format_type = 'json'
count_vulnerabilities_json(a) ==
    IF LoadFails(a) \/ a.kind = "array" \/ HasNullVulns(a) THEN 0
    ELSE Len(Flatten(a.results))

(***************************************************************************)
(* Files of a run: manifests in extras/, artifacts and summaries in        *)
(* reports/.                                                               *)
(***************************************************************************)
\* stems of the manifest files, in sorted() order; the first one names the release
Versions == <<"2.17.0", "2.18.0">>

\* image-key of the i-th record of a manifest (keys are unique within a manifest)
ManifestKeys == <<"imgA", "imgB", "imgC">>

ImageRecord(i) == [image_key |-> ManifestKeys[((i - 1) % Len(ManifestKeys)) + 1]]

\* a manifest file that holds a JSON array of n image records
ArrayManifest(n) == [readable |-> TRUE, images |-> [i \in 1..n |-> ImageRecord(i)]]

\* a manifest file json.load cannot read
UnreadableManifest == [readable |-> FALSE, images |-> <<>>]

ManifestFiles == {ArrayManifest(n) : n \in 0..MaxImages} \cup {UnreadableManifest}

\* what a scan artifact file holds: its reading as JSON, the number of its lines
\* that contain 'CVE-', and the message the adapter itself wrote into it
FileText(json, cve_lines, note) == [json |-> json, cve_lines |-> cve_lines, note |-> note]

\* error or partial output of the scanner: no JSON document, no CVE line
ErrorText == FileText(MalformedArtifact, 0, "")

\* scan_cves.py line 138
PullFailedText == FileText(MalformedArtifact, 0, "Failed to pull image")

\* scan_cves.py lines 167-168: the message appended to what the file holds
WithScanError(text) == FileText(MalformedArtifact, text.cve_lines, "Error during scan")

\* a clean JSON report without / with findings
CleanJson == FileText(ObjectArtifact(<<ListResult(<<>>)>>), 0, "")

FindingsJson ==
    FileText(ObjectArtifact(<<ListResult(
        <<[Severity |-> "CRITICAL", FixedVersion |-> "1.0", Title |-> 5],
          [Severity |-> "UNKNOWN", FixedVersion |-> "", Title |-> 5]>>)>>), 2, "")

\* a table report with one CVE line
FindingsTable == FileText(MalformedArtifact, 1, "")

\* exit of one external invocation: return code 0, return code # 0,
\* subprocess.TimeoutExpired, any other exception
Outcomes == {"ok", "nonzero", "timeout", "error"}

\* what the scanner leaves in the output file.  A run that ends with return code 0
\* leaves a report of the requested format, or text that is no JSON document (log
\* lines share the file: stderr=subprocess.STDOUT); any other run leaves error text.
ScannerOutput(fmt, outcome) ==
    IF outcome # "ok" THEN {ErrorText}
    ELSE IF fmt = "json" THEN {CleanJson, FindingsJson, ErrorText}
    ELSE {ErrorText, FindingsTable}

\* scan_cves.py lines 362-367
ScanFile(base_name, image_key, fmt) ==
    <<base_name, image_key, IF fmt = "json" THEN "json" ELSE "txt">>

Exists(files, path) == path \in DOMAIN files

\* open(path, 'w') ... write
WriteFile(files, path, text) ==
    [q \in DOMAIN files \cup {path} |-> IF q = path THEN text ELSE files[q]]

\* one external invocation and how it ended
Call(step, outcome) == [step |-> step, outcome |-> outcome]

\* scan_cves.py lines 389-412: the counts line of the summary, 0 when none is written
FoundInSummary(vulns) ==
    IF "critical" \in DOMAIN vulns THEN vulns.total ELSE vulns.value

\* count_vulnerabilities returns an int
IntVal(n) == [value |-> n]

\* scan_cves.py lines 199-215, format_type = 'table'
count_vulnerabilities_table(text) == text.cve_lines

\* scan_cves.py lines 375-379
VulnData(ok, fmt, text) ==
    IF ok /\ fmt = "json" THEN parse_trivy_json_for_counts(text.json)
    ELSE IF ok THEN IntVal(count_vulnerabilities_table(text))
    ELSE IntVal(0)

\* variant of ResultRow: every row names the first key of the manifest
ResultRowFirstKey(image_key, ok, vulns) ==
    [image |-> ManifestKeys[1], status |-> IF ok THEN "OK" ELSE "FAILED", vulns |-> vulns]

\* scan_cves.py lines 382 and 416; verify_images.py lines 238 and 246
ResultRow(image_key, ok, vulns) ==
    [image |-> image_key, status |-> IF ok THEN "OK" ELSE "FAILED", vulns |-> vulns]

\* scan_cves.py lines 384-387, 392-396, 407 and 418-421
SummaryLine(image_key, ok, vulns) ==
    [image |-> image_key, mark |-> IF ok THEN "ok" ELSE "failed",
     found |-> IF ok THEN FoundInSummary(vulns) ELSE 0]

\* scan_cves.py lines 324-329: the file is opened and its header written
OpenedSummary == [lines |-> <<>>, footer |-> "none"]

NoSummary == [lines |-> <<>>, footer |-> "absent"]

(***************************************************************************)
(* Digests of check_dummy_shas.py.                                         *)
(* A digest string is written as a sequence of runs: the piece ch, n times *)
(* in a row.  The pieces are the prefix "sha256:", single characters, and  *)
(* the words the patterns of the script look for.                          *)
(***************************************************************************)
\* check_dummy_shas.py line 42: [a-f0-9]{64}
HexLen == 64

DigestRun(ch, n) == [ch |-> ch, n |-> n]

DigestRuns ==
    {DigestRun("sha256:", 1), DigestRun("\n", 1), DigestRun("not-a-digest", 1),
     DigestRun("1234", 1), DigestRun("TeSt", 1), DigestRun("A", 1),
     DigestRun("0", 1), DigestRun("0", HexLen),
     DigestRun("a", 1), DigestRun("a", HexLen - 4), DigestRun("a", HexLen - 1),
     DigestRun("a", HexLen)}

\* the string of a sequence of runs, piece by piece
RECURSIVE Pieces(_)
Pieces(runs) ==
    IF runs = <<>> THEN <<>>
    ELSE [i \in 1..Head(runs).n |-> Head(runs).ch] \o Pieces(Tail(runs))

\* len() of a piece
PieceLen(ch) ==
    CASE ch = "sha256:" -> 7
      [] ch = "not-a-digest" -> 12
      [] ch \in {"1234", "TeSt"} -> 4
      [] OTHER -> 1

\* len() of a string: each kind of piece, as many times as it occurs
RECURSIVE LenOfKinds(_, _)
LenOfKinds(s, kinds) ==
    IF kinds = {} THEN 0
    ELSE LET ch == CHOOSE k \in kinds : TRUE
         IN  PieceLen(ch) * Cardinality({i \in 1..Len(s) : s[i] = ch})
                + LenOfKinds(s, kinds \ {ch})

TextLen(s) == LenOfKinds(s, {s[i] : i \in 1..Len(s)})

\* str.lower() of a piece
Lower(ch) ==
    CASE ch = "TeSt" -> "test"
      [] ch = "A" -> "a"
      [] OTHER -> ch

\* the pieces made of characters of [a-f0-9] only
HexPieces == {"0", "a", "1234"}

\* check_dummy_shas.py line 27: the alternatives of the search pattern
TestPatterns == {"1234", "test", "dummy", "fake", "placeholder"}

\* '$' matches at the end of the string and before a newline that ends it
BeforeFinalNewline(s) ==
    IF s # <<>> /\ s[Len(s)] = "\n" THEN SubSeq(s, 1, Len(s) - 1) ELSE s

\* re.match(r'^sha256:0+$', digest), line 23
MatchesAllZeros(s) ==
    LET t == BeforeFinalNewline(s)
    IN  /\ Len(t) >= 2
        /\ t[1] = "sha256:"
        /\ \A i \in 2..Len(t) : t[i] = "0"

\* re.search(r'1234|test|dummy|fake|placeholder', digest.lower()), line 27
\* (no pattern lies across two pieces)
ContainsTestPattern(s) == \E i \in 1..Len(s) : Lower(s[i]) \in TestPatterns

\* re.match(r'^sha256:(.)\1+$', digest), line 31: '.' matches no newline
MatchesRepeatedChar(s) ==
    LET t == BeforeFinalNewline(s)
    IN  /\ Len(t) >= 3
        /\ t[1] = "sha256:"
        /\ PieceLen(t[2]) = 1
        /\ t[2] # "\n"
        /\ \A i \in 3..Len(t) : t[i] = t[2]

\* is_dummy_sha without its last check
IsDummyNoRepeatCheck(d) ==
    LET s == Pieces(d)
    IN  s = <<>> \/ MatchesAllZeros(s) \/ ContainsTestPattern(s)

\* check_dummy_shas.py lines 17-34
is_dummy_sha(d) ==
    LET s == Pieces(d)
    IN  \/ s = <<>>
        \/ MatchesAllZeros(s)
        \/ ContainsTestPattern(s)
        \/ MatchesRepeatedChar(s)

\* check_dummy_shas.py lines 37-43
is_valid_sha_format(d) ==
    LET t == BeforeFinalNewline(Pieces(d))
    IN  /\ t # <<>>
        /\ t[1] = "sha256:"
        /\ \A i \in 2..Len(t) : t[i] \in HexPieces
        /\ TextLen(Tail(t)) = HexLen

\* the two checks of main() in the other order
IssueTypeFormatFirst(d) ==
    IF ~is_valid_sha_format(d) THEN "INVALID FORMAT"
    ELSE IF is_dummy_sha(d) THEN "DUMMY/PLACEHOLDER"
    ELSE "none"

\* the format check of main() without its negation
IssueTypeNegationDropped(d) ==
    IF is_dummy_sha(d) THEN "DUMMY/PLACEHOLDER"
    ELSE IF is_valid_sha_format(d) THEN "INVALID FORMAT"
    ELSE "none"

\* check_dummy_shas.py lines 75-80: the issue recorded for a digest, "none" if none
IssueType(d) ==
    IF is_dummy_sha(d) THEN "DUMMY/PLACEHOLDER"
    ELSE IF ~is_valid_sha_format(d) THEN "INVALID FORMAT"
    ELSE "none"

(***************************************************************************)
(* Registry redirects (apply_icsp_redirect of scan_cves.py and of          *)
(* verify_images.py, the same code).  A string is the sequence of its      *)
(* characters.                                                             *)
(***************************************************************************)
\* a Python str where None may stand as well
Str(text) == [kind |-> "str", text |-> text]

\* the value of load_icsp_config when the file holds a mirrors list
MirrorList(rules) == [kind |-> "list", rules |-> rules]

\* str.startswith
StartsWith(text, prefix) ==
    /\ Len(prefix) <= Len(text)
    /\ SubSeq(text, 1, Len(prefix)) = prefix

\* the positions at which old occurs in text
Occurrences(text, old) ==
    {i \in 1..(Len(text) - Len(old) + 1) : SubSeq(text, i, i + Len(old) - 1) = old}

\* str.replace(old, new, 1): the first occurrence only
ReplaceFirst(text, old, new) ==
    IF Occurrences(text, old) = {} THEN text
    ELSE LET i == CHOOSE j \in Occurrences(text, old) :
                      \A k \in Occurrences(text, old) : j <= k
         IN  SubSeq(text, 1, i - 1) \o new \o SubSeq(text, i + Len(old), Len(text))

\* scan_cves.py lines 41-44: the rule's condition
RuleApplies(mirror, ref) ==
    /\ mirror.source # <<>>
    /\ mirror.mirror # <<>>
    /\ StartsWith(ref, mirror.source)

\* the loop of apply_icsp_redirect taking the last rule that applies
RedirectLastMatch(ref, mirrors) ==
    LET rules == IF IsNone(mirrors) THEN <<>> ELSE mirrors.rules
        firing == {i \in 1..Len(rules) : RuleApplies(rules[i], ref)}
    IN  IF firing = {} THEN [redirected |-> ref, source |-> NoneVal]
        ELSE LET i == CHOOSE j \in firing : \A k \in firing : k <= j
             IN  [redirected |-> ReplaceFirst(ref, rules[i].source, rules[i].mirror),
                  source     |-> Str(rules[i].source)]

\* scan_cves.py lines 34-48, verify_images.py lines 34-48: the pair returned
apply_icsp_redirect(ref, mirrors) ==
    LET rules == IF IsNone(mirrors) THEN <<>> ELSE mirrors.rules
        firing == {i \in 1..Len(rules) : RuleApplies(rules[i], ref)}
    IN  IF firing = {} THEN [redirected |-> ref, source |-> NoneVal]
        ELSE LET i == CHOOSE j \in firing : \A k \in firing : j <= k
             IN  [redirected |-> ReplaceFirst(ref, rules[i].source, rules[i].mirror),
                  source     |-> Str(rules[i].source)]

\* longest reference, and largest number of rules, of the model
MaxRefLen == 3

MaxRules == 2

RefChars == {"q", "/"}

\* the texts a rule of the model holds as its source or as its mirror
RuleTexts == {<<>>, <<"q">>, <<"q", "/">>, <<"/">>}

MirrorRules == [source : RuleTexts, mirror : RuleTexts]

(***************************************************************************)
(* Manifests read by check_dummy_shas.py, list_images.py, image_report.py. *)
(***************************************************************************)
ValidDigest ==
    <<DigestRun("sha256:", 1), DigestRun("a", HexLen - 1), DigestRun("0", 1)>>

ZeroDigest == <<DigestRun("sha256:", 1), DigestRun("0", HexLen)>>

RepeatDigest == <<DigestRun("sha256:", 1), DigestRun("a", HexLen)>>

\* the record has no image-digest key
AbsentKey == [kind |-> "absent"]

\* what a record holds under image-digest: a string, null, or nothing
RecordDigests ==
    {Str(ValidDigest), Str(ZeroDigest), Str(RepeatDigest),
     Str(<<DigestRun("not-a-digest", 1)>>), Str(<<>>), AbsentKey, NoneVal}

ReportRecords == [image_digest : RecordDigests]

ReportManifests ==
    {[readable |-> TRUE, images |-> images] :
        images \in UNION {[1..n -> ReportRecords] : n \in 0..MaxImages}}
      \cup {UnreadableManifest}

\* image.get('image-digest', '')
GetDigest(image) ==
    IF image.image_digest = AbsentKey THEN Str(<<>>) ELSE image.image_digest

\* check_dummy_shas.py lines 71-80: the issues of one manifest's records, in order
RECURSIVE FileIssues(_)
FileIssues(images) ==
    IF images = <<>> THEN <<>>
    ELSE LET d == GetDigest(Head(images))
             type == IF IsNone(d) THEN "DUMMY/PLACEHOLDER" ELSE IssueType(d.text)
         IN  (IF type = "none" THEN <<>> ELSE <<[digest |-> d, issue_type |-> type]>>)
                \o FileIssues(Tail(images))

\* check_dummy_shas.py line 101: len(digest) raises TypeError for None
DisplayRaises(found) == \E i \in 1..Len(found) : IsNone(found[i].digest)

\* list_images.py lines 75 and 94: image_digest.startswith('sha256:000000')
HasZeroPrefix(d) ==
    LET s == Pieces(d)
    IN  /\ Len(s) >= 7
        /\ s[1] = "sha256:"
        /\ \A i \in 2..7 : s[i] = "0"

\* list_images.py lines 50-104: the table and the summary of one manifest;
\* a null digest raises AttributeError, and nothing is printed but the error
Listing(images) ==
    IF \E i \in 1..Len(images) : IsNone(GetDigest(images[i])) THEN [kind |-> "error"]
    ELSE LET Icon(i) == IF HasZeroPrefix(GetDigest(images[i]).text) THEN "warning" ELSE "ok"
             dummy_count == Cardinality({i \in 1..Len(images) : Icon(i) = "warning"})
         IN  [kind         |-> "table",
              status_icons |-> [i \in 1..Len(images) |-> Icon(i)],
              total_images |-> Len(images),
              real_count   |-> Len(images) - dummy_count,
              dummy_count  |-> dummy_count]

\* image_report.py lines 57-87: the report file of one manifest
ComprehensiveReport(images) ==
    [kind |-> "report", total_images |-> Len(images),
     digests |-> [i \in 1..Len(images) |-> GetDigest(images[i])]]

NothingYet == [kind |-> "none"]

ReportProgs == {"check_dummy_shas", "list_images", "image_report"}

(***************************************************************************)
(* Idle values of the variables of these commands.                         *)
(***************************************************************************)
DigestIdle ==
    /\ digest = <<>>
    /\ issue_type = "none"
    /\ digest_pc = "idle"

RedirectIdle ==
    /\ image_ref = <<>>
    /\ icsp_mirrors = NoneVal
    /\ redirect = NoneVal
    /\ redirect_pc = "idle"

ReportIdle ==
    /\ report_prog = "none"
    /\ report_dir = FALSE
    /\ report_manifests = <<>>
    /\ report_pc = "idle"
    /\ report_idx = 0
    /\ found_issues = 0
    /\ issues = <<>>
    /\ report_out = <<>>
    /\ report_exit = -1

NamingIdle ==
    /\ name_version = <<>>
    /\ name_key = <<>>
    /\ name_ext = "json"
    /\ scan_file = NoneVal
    /\ extracted_key = NoneVal
    /\ naming_pc = "idle"

SlackIdle ==
    /\ send_mode = "none"
    /\ slack_format = "summary"
    /\ name_len = <<>>
    /\ ref_len = 0
    /\ message_data = NoneVal
    /\ posts = <<>>
    /\ parent_ts = NoneVal
    /\ send_pc = "idle"
    /\ send_exit = -1

(***************************************************************************)
(* Inputs of the comparison.                                               *)
(***************************************************************************)
\* counts dicts of artifacts with at most MaxCount vulnerability entries
CveCounts ==
    {cve \in {CveCount(c, h, m, l) : c \in 0..MaxCount, h \in 0..MaxCount,
                                     m \in 0..MaxCount, l \in 0..MaxCount} :
        cve.total <= MaxCount}

\* slack main, lines 895-899 and 902-905 / 914-917
SuccessResult(k, cve) == [image |-> k, status |-> "success", cve_count |-> cve]

FailedResult(k) == [image |-> k, status |-> "failed", cve_count |-> NoneVal]

ResultRows ==
    {SuccessResult(k, cve) : k \in Keys, cve \in CveCounts}
      \cup {FailedResult(k) : k \in Keys}

\* the dict over the key set S with the values f, in artifact file order
DictOf(S, f) ==
    LET In(k) == k \in S
    IN  [order |-> SelectSeq(KeyOrder, In), val |-> [k \in S |-> f[k]]]

PreviousDicts == {DictOf(S, f) : S \in SUBSET Keys, f \in [Keys -> CveCounts]}

\* a counts dict read back as the result list of a run where every scan succeeded
ResultsOf(d) == [i \in 1..Len(d.order) |-> SuccessResult(d.order[i], d.val[d.order[i]])]

SeqRange(s) == {s[i] : i \in 1..Len(s)}

CmpIdle ==
    /\ current_results = <<>>
    /\ previous_results = DictEmpty
    /\ comparison = NoneVal
    /\ reverse = NoneVal
    /\ cmp_pc = "idle"

ParseIdle ==
    /\ artifact = MalformedArtifact
    /\ cve_data = NoneVal
    /\ vuln_data = NoneVal
    /\ vuln_count = 0
    /\ parse_pc = {"idle"}

NoFiles == [q \in {} |-> ErrorText]

RunIdle ==
    /\ prog = "none"
    /\ tool_available = FALSE
    /\ extras_exists = FALSE
    /\ manifests = <<>>
    /\ format_type = "table"
    /\ use_podman = FALSE
    /\ pc = "idle"
    /\ file_idx = 0
    /\ img_idx = 0
    /\ calls = <<>>
    /\ scan_result = FALSE
    /\ total_images = 0
    /\ scanned = 0
    /\ failed = 0
    /\ results = <<>>
    /\ summaries = <<>>
    /\ reports = NoFiles
    /\ exit_code = -1
    /\ slack_pc = "idle"

CmpInit ==
    /\ ParseIdle
    /\ RunIdle
    /\ DigestIdle /\ RedirectIdle /\ ReportIdle /\ NamingIdle /\ SlackIdle
    /\ current_results \in UNION {[1..n -> ResultRows] : n \in 0..Len(KeyOrder)}
    /\ previous_results \in PreviousDicts
    /\ comparison = NoneVal
    /\ reverse = NoneVal
    /\ cmp_pc = "input"

\* compare_scan_results(results, previous_results), as slack main calls it (line 927)
Compare ==
    /\ cmp_pc = "input"
    /\ comparison' = compare_scan_results(current_results, previous_results)
    /\ cmp_pc' = "done"
    /\ UNCHANGED <<current_results, previous_results, reverse, parseVars, runVars, otherVars>>

\* the same two mappings with the sides exchanged: previous as current, current as previous
CompareSwapped ==
    /\ cmp_pc = "done"
    /\ reverse' = compare_scan_results(ResultsOf(previous_results),
                                       CurrentDict(current_results))
    /\ cmp_pc' = "both"
    /\ UNCHANGED <<current_results, previous_results, comparison, parseVars, runVars,
                   otherVars>>

\* one mapping on both sides
CompareSelf ==
    /\ cmp_pc = "input"
    /\ comparison' = compare_scan_results(ResultsOf(previous_results), previous_results)
    /\ cmp_pc' = "self"
    /\ UNCHANGED <<current_results, previous_results, reverse, parseVars, runVars, otherVars>>

CmpNext == Compare \/ CompareSwapped \/ CompareSelf

SpecCompare == CmpInit /\ [][CmpNext]_vars

ParseInit ==
    /\ CmpIdle
    /\ RunIdle
    /\ DigestIdle /\ RedirectIdle /\ ReportIdle /\ NamingIdle /\ SlackIdle
    /\ \/ artifact \in PlainArtifacts
       \/ \E vs \in VulnLists : \E k \in 0..Len(vs) : artifact = SplitArtifact(vs, k)
       \/ \E vs \in VulnLists : \E k \in 0..Len(vs) : \E e \in PadEntries :
             artifact = SplitArtifact(Padded(vs, e, k), k)
       \/ artifact = SplitArtifact(MixedList, 0)
    /\ cve_data = NoneVal
    /\ vuln_data = NoneVal
    /\ vuln_count = 0
    /\ parse_pc = {}

\* slack main, line 893 (and load_previous_scan_results, line 57)
ParseTrivyJson ==
    /\ "parse_trivy_json" \notin parse_pc
    /\ cve_data' = parse_trivy_json(artifact)
    /\ parse_pc' = parse_pc \cup {"parse_trivy_json"}
    /\ UNCHANGED <<artifact, vuln_data, vuln_count, cmpVars, runVars, otherVars>>

\* scan_cves main, line 377
ParseForCounts ==
    /\ "parse_trivy_json_for_counts" \notin parse_pc
    /\ vuln_data' = parse_trivy_json_for_counts(artifact)
    /\ parse_pc' = parse_pc \cup {"parse_trivy_json_for_counts"}
    /\ UNCHANGED <<artifact, cve_data, vuln_count, cmpVars, runVars, otherVars>>

\* scan_cves main, line 379
CountVulnerabilities ==
    /\ "count_vulnerabilities" \notin parse_pc
    /\ vuln_count' = count_vulnerabilities_json(artifact)
    /\ parse_pc' = parse_pc \cup {"count_vulnerabilities"}
    /\ UNCHANGED <<artifact, cve_data, vuln_data, cmpVars, runVars, otherVars>>

ParseNext == ParseTrivyJson \/ ParseForCounts \/ CountVulnerabilities

SpecParse == ParseInit /\ [][ParseNext]_vars

(***************************************************************************)
(* main() of scan_cves.py and of verify_images.py, and the result          *)
(* collection of slack_cve_report.py over the same directories.            *)
(***************************************************************************)
RunInit ==
    /\ CmpIdle
    /\ ParseIdle
    /\ DigestIdle /\ RedirectIdle /\ ReportIdle /\ NamingIdle /\ SlackIdle
    /\ prog \in {"scan_cves", "verify_images"}
    /\ tool_available \in BOOLEAN
    /\ extras_exists \in BOOLEAN
    /\ manifests \in UNION {[1..n -> ManifestFiles] : n \in 0..Len(Versions)}
    /\ extras_exists = FALSE => manifests = <<>>
    /\ format_type \in IF prog = "scan_cves" THEN {"json", "table"} ELSE {"table"}
    /\ use_podman \in IF prog = "verify_images" THEN BOOLEAN ELSE {FALSE}
    /\ pc = "start"
    /\ file_idx = 0
    /\ img_idx = 0
    /\ calls = <<>>
    /\ scan_result = FALSE
    /\ total_images = 0
    /\ scanned = 0
    /\ failed = 0
    /\ results = <<>>
    /\ summaries = [f \in 1..Len(manifests) |-> NoSummary]
    /\ reports = NoFiles
    /\ exit_code = -1
    /\ slack_pc = "idle"

\* the image record the loop is at, and the artifact file of its scan
CurrentImage == manifests[file_idx].images[img_idx]

CurrentScanFile == ScanFile(Versions[file_idx], CurrentImage.image_key, format_type)

\* scan_cves.py lines 228-231 and 292-300; verify_images.py lines 149-176
CheckConfig ==
    /\ pc = "start"
    /\ IF ~tool_available \/ ~extras_exists \/ manifests = <<>>
       THEN pc' = "exit" /\ exit_code' = 1 /\ file_idx' = file_idx
       ELSE pc' = "file" /\ exit_code' = exit_code /\ file_idx' = 1
    /\ UNCHANGED <<inputVars, img_idx, calls, scan_result, total_images, scanned, failed,
                   results, summaries, reports, slack_pc, cmpVars, parseVars, otherVars>>

\* scan_cves.py lines 302-329; verify_images.py lines 178-207
OpenManifest ==
    /\ pc = "file"
    /\ file_idx <= Len(manifests)
    /\ IF ~manifests[file_idx].readable
       THEN /\ file_idx' = file_idx + 1
            /\ UNCHANGED <<pc, img_idx, total_images, scanned, failed, results, summaries>>
       ELSE /\ total_images' = 0
            /\ scanned' = 0
            /\ failed' = 0
            /\ results' = <<>>
            /\ summaries' = [summaries EXCEPT ![file_idx] = OpenedSummary]
            /\ img_idx' = 1
            /\ pc' = "image"
            /\ UNCHANGED file_idx
    /\ UNCHANGED <<inputVars, calls, scan_result, reports, exit_code, slack_pc,
                   cmpVars, parseVars, otherVars>>

\* scan_cves.py line 475; verify_images.py line 284: main() returns
ExitNormally ==
    /\ pc = "file"
    /\ file_idx > Len(manifests)
    /\ pc' = "exit"
    /\ exit_code' = 0
    /\ UNCHANGED <<inputVars, loopVars, summaries, reports, slack_pc, cmpVars, parseVars,
                   otherVars>>

\* scan_cves.py lines 345-367; verify_images.py lines 219-229: the next image, if any
NextImage ==
    /\ pc = "image"
    /\ IF img_idx > Len(manifests[file_idx].images)
       THEN pc' = "footer" /\ calls' = calls
       ELSE /\ calls' = <<>>
            /\ pc' = IF prog = "scan_cves" THEN "remote"
                     ELSE IF use_podman THEN "podman_inspect" ELSE "skopeo"
    /\ UNCHANGED <<inputVars, file_idx, img_idx, scan_result, total_images, scanned,
                   failed, results, summaries, reports, exit_code, slack_pc,
                   cmpVars, parseVars, otherVars>>

\* the remote scan without the return of line 118
RemoteVerdictNoReturn(outcome) ==
    IF outcome = "timeout" THEN "return False" ELSE "fallback"

\* scan_cves.py lines 117-124: what follows the remote scan
RemoteVerdict(outcome) ==
    IF outcome = "ok" THEN "return True"
    ELSE IF outcome = "timeout" THEN "return False"
    ELSE "fallback"

\* scan_image_trivy, lines 93-124: trivy image --image-src remote
ScanRemote ==
    /\ pc = "remote"
    /\ \E outcome \in Outcomes :
         \E text \in ScannerOutput(format_type, outcome) :
           /\ calls' = Append(calls, Call("remote", outcome))
           /\ reports' = WriteFile(reports, CurrentScanFile, text)
           /\ scan_result' = (RemoteVerdict(outcome) = "return True")
           /\ pc' = IF RemoteVerdict(outcome) = "fallback" THEN "pull" ELSE "record"
    /\ UNCHANGED <<inputVars, file_idx, img_idx, total_images, scanned, failed, results,
                   summaries, exit_code, slack_pc, cmpVars, parseVars, otherVars>>

\* scan_image_trivy, lines 126-139 and 164-169: podman pull
PullImage ==
    /\ pc = "pull"
    /\ \E outcome \in Outcomes :
         /\ calls' = Append(calls, Call("pull", outcome))
         /\ reports' =
              IF outcome = "nonzero"
              THEN WriteFile(reports, CurrentScanFile, PullFailedText)
              ELSE IF outcome = "error"
              THEN WriteFile(reports, CurrentScanFile,
                             WithScanError(reports[CurrentScanFile]))
              ELSE reports
         /\ scan_result' = FALSE
         /\ pc' = IF outcome = "ok" THEN "local" ELSE "record"
    /\ UNCHANGED <<inputVars, file_idx, img_idx, total_images, scanned, failed, results,
                   summaries, exit_code, slack_pc, cmpVars, parseVars, otherVars>>

\* scan_image_trivy, lines 141-169: trivy image --image-src podman
ScanLocal ==
    /\ pc = "local"
    /\ \E outcome \in Outcomes :
         \E text \in ScannerOutput(format_type, outcome) :
           /\ calls' = Append(calls, Call("local", outcome))
           /\ reports' = WriteFile(reports, CurrentScanFile,
                                   IF outcome = "error" THEN WithScanError(text) ELSE text)
           /\ scan_result' = (outcome = "ok")
           /\ pc' = "record"
    /\ UNCHANGED <<inputVars, file_idx, img_idx, total_images, scanned, failed, results,
                   summaries, exit_code, slack_pc, cmpVars, parseVars, otherVars>>

\* scan_cves.py lines 375-430: the result of one image is parsed, written and counted
RecordScan ==
    /\ pc = "record"
    /\ prog = "scan_cves"
    /\ LET key == CurrentImage.image_key
           vulns == VulnData(scan_result, format_type, reports[CurrentScanFile])
       IN  /\ results' = Append(results, ResultRow(key, scan_result, vulns))
           /\ summaries' = [summaries EXCEPT ![file_idx].lines =
                               Append(@, SummaryLine(key, scan_result, vulns))]
    /\ scanned' = IF scan_result THEN scanned + 1 ELSE scanned
    /\ failed' = IF scan_result THEN failed ELSE failed + 1
    /\ total_images' = total_images + 1
    /\ img_idx' = img_idx + 1
    /\ pc' = "image"
    /\ UNCHANGED <<inputVars, file_idx, calls, scan_result, reports, exit_code, slack_pc,
                   cmpVars, parseVars, otherVars>>

\* verify_with_skopeo, verify_images.py lines 60-82
VerifySkopeo ==
    /\ pc = "skopeo"
    /\ \E outcome \in Outcomes :
         /\ calls' = Append(calls, Call("skopeo inspect", outcome))
         /\ scan_result' = (outcome = "ok")
    /\ pc' = "record"
    /\ UNCHANGED <<inputVars, file_idx, img_idx, total_images, scanned, failed, results,
                   summaries, reports, exit_code, slack_pc, cmpVars, parseVars,
                   otherVars>>

\* verify_with_podman, verify_images.py lines 87-96 and 104-107: podman image inspect
VerifyPodmanInspect ==
    /\ pc = "podman_inspect"
    /\ \E outcome \in Outcomes :
         /\ calls' = Append(calls, Call("podman image inspect", outcome))
         /\ scan_result' = (outcome = "ok")
         /\ pc' = IF outcome = "nonzero" THEN "podman_pull" ELSE "record"
    /\ UNCHANGED <<inputVars, file_idx, img_idx, total_images, scanned, failed, results,
                   summaries, reports, exit_code, slack_pc, cmpVars, parseVars,
                   otherVars>>

\* verify_with_podman, verify_images.py lines 97-107: podman pull
VerifyPodmanPull ==
    /\ pc = "podman_pull"
    /\ \E outcome \in Outcomes :
         /\ calls' = Append(calls, Call("podman pull", outcome))
         /\ scan_result' = (outcome = "ok")
    /\ pc' = "record"
    /\ UNCHANGED <<inputVars, file_idx, img_idx, total_images, scanned, failed, results,
                   summaries, reports, exit_code, slack_pc, cmpVars, parseVars,
                   otherVars>>

\* verify_images.py lines 237-255
RecordVerify ==
    /\ pc = "record"
    /\ prog = "verify_images"
    /\ LET key == CurrentImage.image_key
       IN  /\ results' = Append(results, ResultRow(key, scan_result, IntVal(0)))
           /\ summaries' = [summaries EXCEPT ![file_idx].lines =
                               Append(@, SummaryLine(key, scan_result, IntVal(0)))]
    /\ scanned' = IF scan_result THEN scanned + 1 ELSE scanned
    /\ failed' = IF scan_result THEN failed ELSE failed + 1
    /\ total_images' = total_images + 1
    /\ img_idx' = img_idx + 1
    /\ pc' = "image"
    /\ UNCHANGED <<inputVars, file_idx, calls, scan_result, reports, exit_code, slack_pc,
                   cmpVars, parseVars, otherVars>>

\* scan_cves.py line 434; verify_images.py line 259: total_scan_time/total_images
\* raises ZeroDivisionError when no image was counted
AverageRaises(total) == total = 0

\* scan_cves.py lines 432-434 and 436-473; verify_images.py lines 257-259 and 261-282:
\* the Summary line is written, then the line with the average time
WriteFooter ==
    /\ pc = "footer"
    /\ IF AverageRaises(total_images)
       THEN /\ summaries' = [summaries EXCEPT ![file_idx].footer = "no average"]
            /\ pc' = "exit"
            /\ exit_code' = 1
            /\ UNCHANGED file_idx
       ELSE /\ summaries' = [summaries EXCEPT ![file_idx].footer = "complete"]
            /\ pc' = "file"
            /\ file_idx' = file_idx + 1
            /\ UNCHANGED exit_code
    /\ UNCHANGED <<inputVars, img_idx, calls, scan_result, total_images, scanned, failed,
                   results, reports, slack_pc, cmpVars, parseVars, otherVars>>

\* slack_cve_report.py lines 883-917: the result of one image of the manifest
SlackResult(files, version, image_key) ==
    IF Exists(files, <<version, image_key, "json">>)
    THEN LET cve_count == parse_trivy_json(files[<<version, image_key, "json">>].json)
         IN  IF ~IsNone(cve_count) THEN SuccessResult(image_key, cve_count)
             ELSE FailedResult(image_key)
    ELSE IF Exists(files, <<version, image_key, "txt">>)
    THEN SuccessResult(image_key, ZeroCounts)
    ELSE FailedResult(image_key)

\* slack_cve_report.py lines 846-917, run after the scan has ended: the first
\* manifest names the release and lists the images
CollectSlackResults ==
    /\ prog = "scan_cves"
    /\ pc = "exit"
    /\ slack_pc = "idle"
    /\ IF manifests = <<>>
       THEN slack_pc' = "exit 1" /\ UNCHANGED current_results
       ELSE IF ~manifests[1].readable
       THEN slack_pc' = "raised" /\ UNCHANGED current_results
       ELSE /\ slack_pc' = "collected"
            /\ current_results' =
                 [i \in 1..Len(manifests[1].images) |->
                     SlackResult(reports, Versions[1], manifests[1].images[i].image_key)]
    /\ UNCHANGED <<previous_results, comparison, reverse, cmp_pc, parseVars, inputVars,
                   loopVars, pc, summaries, reports, exit_code, otherVars>>

Next ==
    \/ CheckConfig
    \/ OpenManifest
    \/ ExitNormally
    \/ NextImage
    \/ ScanRemote
    \/ PullImage
    \/ ScanLocal
    \/ RecordScan
    \/ VerifySkopeo
    \/ VerifyPodmanInspect
    \/ VerifyPodmanPull
    \/ RecordVerify
    \/ WriteFooter
    \/ CollectSlackResults

Init == RunInit

Spec == Init /\ [][Next]_vars

(***************************************************************************)
(* The classification of one digest by check_dummy_shas.py.                *)
(***************************************************************************)
\* largest number of runs of a digest of the model
MaxRuns == 4

DigestInit ==
    /\ CmpIdle
    /\ ParseIdle
    /\ RunIdle
    /\ RedirectIdle /\ ReportIdle /\ NamingIdle /\ SlackIdle
    /\ \E n \in 0..MaxRuns : digest \in [1..n -> DigestRuns]
    /\ issue_type = "none"
    /\ digest_pc = "input"

\* check_dummy_shas.py lines 75-80
CheckDigest ==
    /\ digest_pc = "input"
    /\ issue_type' = IssueType(digest)
    /\ digest_pc' = "checked"
    /\ UNCHANGED <<digest, cmpVars, parseVars, runVars, redirectVars, reportVars,
                   namingVars, slackVars>>

DigestNext == CheckDigest

SpecDigest == DigestInit /\ [][DigestNext]_vars

(***************************************************************************)
(* One call of apply_icsp_redirect.                                        *)
(***************************************************************************)
RedirectInit ==
    /\ CmpIdle
    /\ ParseIdle
    /\ RunIdle
    /\ DigestIdle /\ ReportIdle /\ NamingIdle /\ SlackIdle
    /\ \E n \in 0..MaxRefLen : image_ref \in [1..n -> RefChars]
    /\ \/ icsp_mirrors = NoneVal
       \/ \E n \in 0..MaxRules :
            \E rules \in [1..n -> MirrorRules] : icsp_mirrors = MirrorList(rules)
    /\ redirect = NoneVal
    /\ redirect_pc = "input"

\* scan_cves.py line 353; verify_images.py line 227
ApplyRedirect ==
    /\ redirect_pc = "input"
    /\ redirect' = apply_icsp_redirect(image_ref, icsp_mirrors)
    /\ redirect_pc' = "done"
    /\ UNCHANGED <<image_ref, icsp_mirrors, cmpVars, parseVars, runVars, digestVars,
                   reportVars, namingVars, slackVars>>

RedirectNext == ApplyRedirect

SpecRedirect == RedirectInit /\ [][RedirectNext]_vars

(***************************************************************************)
(* main() of check_dummy_shas.py, list_images.py and image_report.py.      *)
(***************************************************************************)
ReportInit ==
    /\ CmpIdle
    /\ ParseIdle
    /\ RunIdle
    /\ DigestIdle /\ RedirectIdle /\ NamingIdle /\ SlackIdle
    /\ report_prog \in ReportProgs
    /\ report_dir \in BOOLEAN
    /\ \E n \in 0..Len(Versions) : report_manifests \in [1..n -> ReportManifests]
    /\ report_dir = FALSE => report_manifests = <<>>
    /\ report_pc = "start"
    /\ report_idx = 0
    /\ found_issues = 0
    /\ issues = <<>>
    /\ report_out = [f \in 1..Len(report_manifests) |-> NothingYet]
    /\ report_exit = -1

\* check_dummy_shas.py lines 51-62; list_images.py lines 22-30;
\* image_report.py lines 28-36
ReportCheckDir ==
    /\ report_pc = "start"
    /\ IF ~report_dir \/ report_manifests = <<>>
       THEN report_pc' = "exit" /\ report_exit' = 1 /\ report_idx' = report_idx
       ELSE report_pc' = "file" /\ report_exit' = report_exit /\ report_idx' = 1
    /\ UNCHANGED <<report_prog, report_dir, report_manifests, found_issues, issues,
                   report_out, cmpVars, parseVars, runVars, digestVars, redirectVars, namingVars, slackVars>>

\* check_dummy_shas.py lines 64-87: one manifest file
CheckFile ==
    /\ report_pc = "file"
    /\ report_prog = "check_dummy_shas"
    /\ report_idx <= Len(report_manifests)
    /\ LET file == report_manifests[report_idx]
           found == IF file.readable THEN FileIssues(file.images) ELSE <<>>
       IN  /\ issues' = issues \o found
           /\ found_issues' = found_issues + (IF file.readable THEN Len(found) ELSE 1)
    /\ report_idx' = report_idx + 1
    /\ UNCHANGED <<report_prog, report_dir, report_manifests, report_pc, report_out,
                   report_exit, cmpVars, parseVars, runVars, digestVars, redirectVars, namingVars, slackVars>>

\* check_dummy_shas.py lines 89-111: the issues are displayed, then sys.exit(0)
CheckFinish ==
    /\ report_pc = "file"
    /\ report_prog = "check_dummy_shas"
    /\ report_idx > Len(report_manifests)
    /\ report_pc' = "exit"
    /\ report_exit' = IF found_issues # 0 /\ DisplayRaises(issues) THEN 1 ELSE 0
    /\ UNCHANGED <<report_prog, report_dir, report_manifests, report_idx, found_issues,
                   issues, report_out, cmpVars, parseVars, runVars, digestVars,
                   redirectVars, namingVars, slackVars>>

\* list_images.py lines 32-110: one manifest file
ListFile ==
    /\ report_pc = "file"
    /\ report_prog = "list_images"
    /\ report_idx <= Len(report_manifests)
    /\ LET file == report_manifests[report_idx]
       IN  report_out' = [report_out EXCEPT ![report_idx] =
                             IF file.readable THEN Listing(file.images)
                             ELSE [kind |-> "error"]]
    /\ report_idx' = report_idx + 1
    /\ UNCHANGED <<report_prog, report_dir, report_manifests, report_pc, found_issues,
                   issues, report_exit, cmpVars, parseVars, runVars, digestVars,
                   redirectVars, namingVars, slackVars>>

\* image_report.py lines 38-89: one manifest file; the handler of line 48 reads
\* Colors.RED, which the class does not define, and raises AttributeError
ReportFile ==
    /\ report_pc = "file"
    /\ report_prog = "image_report"
    /\ report_idx <= Len(report_manifests)
    /\ LET file == report_manifests[report_idx]
       IN  IF file.readable
           THEN /\ report_out' = [report_out EXCEPT ![report_idx] =
                                     ComprehensiveReport(file.images)]
                /\ report_idx' = report_idx + 1
                /\ UNCHANGED <<report_pc, report_exit>>
           ELSE /\ report_pc' = "exit"
                /\ report_exit' = 1
                /\ UNCHANGED <<report_out, report_idx>>
    /\ UNCHANGED <<report_prog, report_dir, report_manifests, found_issues, issues,
                   cmpVars, parseVars, runVars, digestVars, redirectVars, namingVars, slackVars>>

\* list_images.py line 110 and image_report.py line 91: main() returns
ReportReturns ==
    /\ report_pc = "file"
    /\ report_prog \in {"list_images", "image_report"}
    /\ report_idx > Len(report_manifests)
    /\ report_pc' = "exit"
    /\ report_exit' = 0
    /\ UNCHANGED <<report_prog, report_dir, report_manifests, report_idx, found_issues,
                   issues, report_out, cmpVars, parseVars, runVars, digestVars,
                   redirectVars, namingVars, slackVars>>

ReportNext ==
    \/ ReportCheckDir
    \/ CheckFile
    \/ CheckFinish
    \/ ListFile
    \/ ReportFile
    \/ ReportReturns

SpecReport == ReportInit /\ [][ReportNext]_vars

(***************************************************************************)
(* Properties of compare_scan_results.                                     *)
(* "current" is the mapping of the images whose current scan succeeded,    *)
(* "previous" the mapping loaded from the previous reports.                *)
(***************************************************************************)
CurrentKeySet ==
    {current_results[i].image :
        i \in {j \in 1..Len(current_results) : current_results[j].status = "success"}}

PreviousKeySet == DOMAIN previous_results.val

\* the counts of key k on the current side: its last successful result
CurrentOf(k) ==
    LET idx == {j \in 1..Len(current_results) :
                    /\ current_results[j].status = "success"
                    /\ current_results[j].image = k}
        last == CHOOSE j \in idx : \A i \in idx : i <= j
    IN  current_results[last].cve_count

PreviousOf(k) == previous_results.val[k]

\* the set of the elements of one list of a returned comparison; nothing when None
Listed(cmp, field) == IF IsNone(cmp) THEN {} ELSE SeqRange(cmp[field])

ListedImages(cmp, field) == {e.image : e \in Listed(cmp, field)}

RECURSIVE SumOver(_, _, _)
SumOver(S, side, field) ==
    IF S = {} THEN 0
    ELSE LET k == CHOOSE x \in S : TRUE
             v == IF side = "current" THEN CurrentOf(k) ELSE PreviousOf(k)
         IN  v[field] + SumOver(S \ {k}, side, field)

NewRemovedAsSets(cmp) ==
    \A k \in Keys :
        /\ k \in Listed(cmp, "new_components")
              <=> (k \in CurrentKeySet /\ k \notin PreviousKeySet)
        /\ k \in Listed(cmp, "removed_components")
              <=> (k \in PreviousKeySet /\ k \notin CurrentKeySet)

\* C6, as stated: after the call a key is in new_components exactly when it is in
\* current and not in previous, and in removed_components exactly when it is in
\* previous and not in current.
C6_AsStated == cmp_pc = "done" => NewRemovedAsSets(comparison)

\* C6, amended: when previous holds at least one key, the call returns a comparison
\* whose new_components are exactly the keys of current absent from previous and
\* whose removed_components are exactly the keys of previous absent from current;
\* when previous is empty the call returns None and lists nothing.
C6_NewRemoved ==
    cmp_pc = "done" =>
        IF PreviousKeySet = {} THEN IsNone(comparison)
        ELSE ~IsNone(comparison) /\ NewRemovedAsSets(comparison)

C6_Witness ==
    /\ cmp_pc = "done"
    /\ ~IsNone(comparison)
    /\ comparison.new_components # <<>>
    /\ comparison.removed_components # <<>>

\* the entry C7 expects for a key present on both sides
ExpectedEntry(k) ==
    LET cw == CurrentOf(k).critical + CurrentOf(k).high
        pw == PreviousOf(k).critical + PreviousOf(k).high
    IN  [image |-> k, previous |-> pw, current |-> cw, delta |-> cw - pw,
         prev_critical |-> PreviousOf(k).critical,
         curr_critical |-> CurrentOf(k).critical]

\* C7: a key present on both sides is classified by critical + high alone: a lower
\* weight than before puts it in improved, a higher one in worsened, an equal one in
\* unchanged, whatever medium, low and total are; its improved/worsened entry carries
\* previous weight, current weight, delta = current - previous and both critical counts.
C7_WeightClass ==
    cmp_pc = "done" =>
        \A k \in CurrentKeySet \cap PreviousKeySet :
            LET e == ExpectedEntry(k)
            IN  /\ ~IsNone(comparison)
                /\ (e.delta < 0) <=> (e \in Listed(comparison, "improved"))
                /\ (e.delta > 0) <=> (e \in Listed(comparison, "worsened"))
                /\ (e.delta = 0) <=> (k \in Listed(comparison, "unchanged"))
                /\ (e.delta < 0) <=> (k \in ListedImages(comparison, "improved"))
                /\ (e.delta > 0) <=> (k \in ListedImages(comparison, "worsened"))

\* a key whose weight is unchanged while its medium or low count changed, next to
\* one improved and one worsened entry somewhere in the reachable states
C7_Witness ==
    /\ cmp_pc = "done"
    /\ \E k \in CurrentKeySet \cap PreviousKeySet :
          /\ k \in Listed(comparison, "unchanged")
          /\ CurrentOf(k).total # PreviousOf(k).total
    /\ \E k \in CurrentKeySet \cap PreviousKeySet :
          k \in ListedImages(comparison, "improved") \cup ListedImages(comparison, "worsened")

\* C8: the returned net_change is, for critical, high and total, the sum over the
\* keys of current minus the sum over the keys of previous, each side summed over
\* all of its own keys.
C8_NetChange ==
    (cmp_pc = "done" /\ ~IsNone(comparison)) =>
        \A f \in {"critical", "high", "total"} :
            comparison.net_change[f] =
                SumOver(CurrentKeySet, "current", f) - SumOver(PreviousKeySet, "previous", f)

\* a key on one side only carries counts into a non-zero net change
C8_Witness ==
    /\ cmp_pc = "done"
    /\ ~IsNone(comparison)
    /\ \E k \in CurrentKeySet \ PreviousKeySet : CurrentOf(k).total > 0
    /\ \E k \in PreviousKeySet \ CurrentKeySet : PreviousOf(k).critical > 0
    /\ comparison.net_change.critical < 0

SelfComparisonIsNeutral ==
    /\ ~IsNone(comparison)
    /\ comparison.net_change = [critical |-> 0, high |-> 0, total |-> 0]
    /\ comparison.new_components = <<>>
    /\ comparison.removed_components = <<>>
    /\ Listed(comparison, "unchanged") = PreviousKeySet
    /\ comparison.improved = <<>>
    /\ comparison.worsened = <<>>

\* C9, as stated: comparing any mapping A with itself yields net_change 0/0/0, no
\* new and no removed components and every key of A in unchanged.
C9_AsStated == cmp_pc = "self" => SelfComparisonIsNeutral

\* C9, amended: comparing a mapping A that holds at least one key with itself yields
\* net_change 0/0/0, no new and no removed components and every key of A in
\* unchanged; for the empty mapping the call returns None.
C9_SelfCompare ==
    cmp_pc = "self" =>
        IF PreviousKeySet = {} THEN IsNone(comparison) ELSE SelfComparisonIsNeutral

C9_Witness ==
    /\ cmp_pc = "self"
    /\ PreviousKeySet = Keys
    /\ \A k \in Keys : PreviousOf(k).total > 0
    /\ ~IsNone(comparison)

\* C10: a key in worsened for compare(A, B) is in improved for compare(B, A) with the
\* negated delta, and a key in improved for compare(A, B) is in worsened for
\* compare(B, A) with the negated delta.
C10_Antisymmetric ==
    cmp_pc = "both" =>
        /\ \A e \in Listed(comparison, "worsened") :
              \E r \in Listed(reverse, "improved") :
                  r.image = e.image /\ r.delta = -e.delta
        /\ \A e \in Listed(comparison, "improved") :
              \E r \in Listed(reverse, "worsened") :
                  r.image = e.image /\ r.delta = -e.delta
        /\ \A r \in Listed(reverse, "worsened") :
              \E e \in Listed(comparison, "improved") :
                  r.image = e.image /\ r.delta = -e.delta
        /\ \A r \in Listed(reverse, "improved") :
              \E e \in Listed(comparison, "worsened") :
                  r.image = e.image /\ r.delta = -e.delta

C10_Witness ==
    /\ cmp_pc = "both"
    /\ Listed(comparison, "worsened") # {}
    /\ Listed(reverse, "improved") # {}
    /\ Listed(comparison, "improved") # {}

(***************************************************************************)
(* Properties of the structured parsers.                                   *)
(***************************************************************************)
\* the number of vulnerability entries the artifact holds
NumEntries(a) == Len(Flatten(a.results))

\* C5: parse_trivy_json counts every vulnerability entry toward total, also an entry
\* whose severity is none of CRITICAL, HIGH, MEDIUM, LOW: total is the number of
\* entries and at least critical + high + medium + low.
C5_TotalCountsEveryEntry ==
    ("parse_trivy_json" \in parse_pc /\ ~IsNone(cve_data)) =>
        /\ cve_data.total = NumEntries(artifact)
        /\ cve_data.total >= cve_data.critical + cve_data.high
                                + cve_data.medium + cve_data.low

(***************************************************************************)
(* Properties of a scan or verification run and of the chat report that    *)
(* follows it.                                                             *)
(***************************************************************************)
\* C1: the remote scan is the first invocation, and when it ends with a non-zero
\* return code or with a timeout the pull of the fallback follows before the result
\* of the image is reported.
C1_FallbackAfterRemoteFailure ==
    (prog = "scan_cves" /\ pc = "record") =>
        /\ calls # <<>>
        /\ calls[1].step = "remote"
        /\ calls[1].outcome \in {"nonzero", "timeout"} =>
              (Len(calls) >= 2 /\ calls[2].step = "pull")

\* the artifact of one image of one manifest file cannot be loaded as JSON
Unparseable(version, image_key) ==
    /\ Exists(reports, <<version, image_key, "json">>)
    /\ LoadFails(reports[<<version, image_key, "json">>].json)

\* C2: an image whose JSON artifact is malformed or unreadable is reported as failed,
\* never as scanned, by the summary scan_cves writes and by the results the chat
\* report collects.
C2_MalformedIsFailure ==
    /\ (prog = "scan_cves" /\ format_type = "json") =>
          \A f \in 1..Len(summaries) :
              \A i \in 1..Len(summaries[f].lines) :
                  Unparseable(Versions[f], summaries[f].lines[i].image)
                      => summaries[f].lines[i].mark = "failed"
    /\ slack_pc = "collected" =>
          \A i \in 1..Len(current_results) :
              Unparseable(Versions[1], current_results[i].image)
                  => current_results[i].status = "failed"

\* C3: whatever the output format, an image whose scan failed is collected by the
\* chat report as failed, never as a successful scan.
C3_FailedScanShownFailed ==
    slack_pc = "collected" =>
        \A i \in 1..Len(current_results) :
            \A j \in 1..Len(summaries[1].lines) :
                (/\ summaries[1].lines[j].image = current_results[i].image
                 /\ summaries[1].lines[j].mark = "failed")
                    => current_results[i].status = "failed"

\* missing manifest directory, no manifest file, missing external tool
ConfigurationError == ~tool_available \/ ~extras_exists \/ manifests = <<>>

AllManifestsAreArrays == \A f \in 1..Len(manifests) : manifests[f].readable

\* C4: a run ends with a non-zero exit only on a configuration error; when every
\* manifest is a JSON array of image records, of any length, every manifest file is
\* processed, its summary is written to the end and the exit code is 0.
C4_ExitZeroUnlessConfigError ==
    pc = "exit" =>
        /\ exit_code # 0 => ConfigurationError
        /\ (~ConfigurationError /\ AllManifestsAreArrays) =>
              /\ exit_code = 0
              /\ \A f \in 1..Len(manifests) : summaries[f].footer = "complete"

(***************************************************************************)
(* Properties of the digest classification.                                *)
(* Valid = no issue recorded, Placeholder = DUMMY/PLACEHOLDER,             *)
(* Malformed = INVALID FORMAT.                                             *)
(***************************************************************************)
DigestText == Pieces(digest)

\* sha256: followed by exactly 64 characters of [a-f0-9], and nothing else
WellFormed(s) ==
    /\ s # <<>>
    /\ s[1] = "sha256:"
    /\ \A i \in 2..Len(s) : s[i] \in HexPieces
    /\ TextLen(Tail(s)) = HexLen

\* the characters after the prefix sha256:, for a digest that has the prefix
HasPayload(s) == s # <<>> /\ s[1] = "sha256:"

Payload(s) == Tail(s)

\* the payload is made of zeros only
AllZeroPayload(s) ==
    /\ HasPayload(s)
    /\ Payload(s) # <<>>
    /\ \A i \in 1..Len(Payload(s)) : Payload(s)[i] = "0"

\* the hex payload is one character, repeated across its full length
RepeatedPayload(s) ==
    /\ HasPayload(s)
    /\ Len(Payload(s)) >= 2
    /\ PieceLen(Payload(s)[1]) = 1
    /\ Payload(s)[1] \in HexPieces
    /\ \A i \in 1..Len(Payload(s)) : Payload(s)[i] = Payload(s)[1]

\* 1234, test, dummy, fake or placeholder occurs, in any case
SuspiciousSubstring(s) ==
    \E i \in 1..Len(s) : s[i] \in {"1234", "TeSt"}

ShowsPlaceholderPattern(s) ==
    AllZeroPayload(s) \/ RepeatedPayload(s) \/ SuspiciousSubstring(s)

\* C11 as stated: sha256: followed by 64 'a' characters is classified Valid,
\* neither DUMMY/PLACEHOLDER nor INVALID FORMAT is recorded for it
C11_AsStated ==
    (digest_pc = "checked" /\ DigestText = Pieces(RepeatDigest)) => issue_type = "none"

\* C11 amended: sha256: followed by 64 'a' characters is a single repeated
\* character and is classified Placeholder (DUMMY/PLACEHOLDER), not Valid and
\* not INVALID FORMAT
C11_RepeatedIsPlaceholder ==
    (digest_pc = "checked" /\ DigestText = Pieces(RepeatDigest))
        => issue_type = "DUMMY/PLACEHOLDER"

C11_Witness ==
    /\ digest_pc = "checked"
    /\ DigestText = Pieces(RepeatDigest)
    /\ issue_type # "INVALID FORMAT"

\* C12: the empty digest is classified Malformed (INVALID FORMAT), and so is
\* every digest that is not well formed and shows no placeholder pattern
C12_EmptyOrIllFormedIsMalformed ==
    (/\ digest_pc = "checked"
     /\ \/ DigestText = <<>>
        \/ ~WellFormed(DigestText) /\ ~ShowsPlaceholderPattern(DigestText))
        => issue_type = "INVALID FORMAT"

C14_ValidExactly ==
    digest_pc = "checked"
        => (issue_type = "none"
              <=> (WellFormed(DigestText) /\ ~ShowsPlaceholderPattern(DigestText)))

\* C15: every digest string gets exactly one of the three classes; sha256:
\* followed by 64 zeros is Placeholder and not-a-digest is Malformed
C15_TotalSingleValued ==
    digest_pc = "checked"
        => /\ issue_type \in {"none", "DUMMY/PLACEHOLDER", "INVALID FORMAT"}
           /\ DigestText = Pieces(ZeroDigest) => issue_type = "DUMMY/PLACEHOLDER"
           /\ DigestText = <<"not-a-digest">> => issue_type = "INVALID FORMAT"

C15_Witness ==
    /\ digest_pc = "checked"
    /\ DigestText = <<"not-a-digest">>
    /\ issue_type = "INVALID FORMAT"

(***************************************************************************)
(* Properties of the detail list of parse_trivy_json.                      *)
(***************************************************************************)
\* the positions of the artifact's entries whose severity, upper-cased, is sev
EntriesOf(sev) ==
    LET vs == Flatten(artifact.results)
    IN  {i \in 1..Len(vs) : Upper(vs[i].Severity) = sev}

\* the j-th position of S in scan order
NthOf(S, j) == CHOOSE i \in S : Cardinality({k \in S : k <= i}) = j

\* the detail entry at position j is made from the artifact's entry at position i
DetailOf(j, i) ==
    LET d == cve_data.details[j]
        v == Flatten(artifact.results)[i]
    IN  /\ d.severity = Upper(v.Severity)
        /\ d.title = (IF v.Title <= TitleCap THEN v.Title ELSE TitleCap)
        /\ d.fixed_version = v.FixedVersion

KeptHigh == Min(Cardinality(EntriesOf("HIGH")), HighDetailCap)

\* C16: the detail list is every CRITICAL entry, then at most the first 10 HIGH
\* entries, each group in scan order, every title at most 80 characters, and no
\* entry of another severity; 2 CRITICAL + 3 HIGH + 1 MEDIUM give total 6 and a
\* detail list of length 5
C16_DetailList ==
    ("parse_trivy_json" \in parse_pc /\ ~IsNone(cve_data))
        => LET crit == EntriesOf("CRITICAL")
               high == EntriesOf("HIGH")
               n == Cardinality(crit)
           IN  /\ Len(cve_data.details) = n + KeptHigh
               /\ \A j \in 1..n : DetailOf(j, NthOf(crit, j))
               /\ \A j \in 1..KeptHigh : DetailOf(n + j, NthOf(high, j))
               /\ \A j \in 1..Len(cve_data.details) :
                     /\ cve_data.details[j].title <= TitleCap
                     /\ cve_data.details[j].severity \in {"CRITICAL", "HIGH"}
               /\ Flatten(artifact.results) = MixedList
                     => cve_data.total = 6 /\ Len(cve_data.details) = 5

\* more HIGH entries than the list keeps, with a CRITICAL entry after them and a
\* title longer than the cap
C16_Witness ==
    /\ "parse_trivy_json" \in parse_pc
    /\ ~IsNone(cve_data)
    /\ Cardinality(EntriesOf("HIGH")) > HighDetailCap
    /\ EntriesOf("CRITICAL") # {}
    /\ \E i \in EntriesOf("CRITICAL") : \A k \in EntriesOf("HIGH") : k < i
    /\ Len(cve_data.details) = Cardinality(EntriesOf("CRITICAL")) + HighDetailCap
    /\ \E i \in EntriesOf("HIGH") : Flatten(artifact.results)[i].Title > TitleCap

(***************************************************************************)
(* Properties of apply_icsp_redirect.                                      *)
(***************************************************************************)
LoadedRules == IF IsNone(icsp_mirrors) THEN <<>> ELSE icsp_mirrors.rules

\* the reference with its leading Len(source) characters replaced by mirror
PrefixReplaced(ref, rule) ==
    rule.mirror \o SubSeq(ref, Len(rule.source) + 1, Len(ref))

\* the call rewrote the reference with the first rule of the set eligible, and
\* returned it unchanged, with no rule, when the set is empty
FirstOfRewrites(eligible) ==
    IF eligible = {}
    THEN redirect.redirected = image_ref /\ redirect.source = NoneVal
    ELSE LET i == CHOOSE j \in eligible : \A k \in eligible : j <= k
         IN  /\ redirect.redirected = PrefixReplaced(image_ref, LoadedRules[i])
             /\ redirect.source = Str(LoadedRules[i].source)

\* C17 as stated: the first rule, in configuration order, whose source is a
\* prefix of the reference rewrites it; with no such rule the reference is
\* returned unchanged and no rule is recorded
C17_AsStated ==
    redirect_pc = "done"
        => FirstOfRewrites({i \in 1..Len(LoadedRules) :
                               StartsWith(image_ref, LoadedRules[i].source)})

\* C17 amended: the first rule, in configuration order, that has a non-empty
\* source and a non-empty mirror and whose source is a prefix of the reference
\* rewrites it, replacing only that leading prefix by the rule's mirror, and its
\* source is returned; with no such rule (or no rules loaded) the reference is
\* returned unchanged and no rule is recorded
C17_FirstCompleteRule ==
    redirect_pc = "done"
        => FirstOfRewrites({i \in 1..Len(LoadedRules) :
                               /\ LoadedRules[i].source # <<>>
                               /\ LoadedRules[i].mirror # <<>>
                               /\ StartsWith(image_ref, LoadedRules[i].source)})

\* two rules apply and would rewrite differently; the source occurs again later
C17_Witness ==
    /\ redirect_pc = "done"
    /\ Len(LoadedRules) = 2
    /\ \A i \in 1..2 : /\ LoadedRules[i].source # <<>>
                       /\ LoadedRules[i].mirror # <<>>
                       /\ StartsWith(image_ref, LoadedRules[i].source)
    /\ PrefixReplaced(image_ref, LoadedRules[1]) # PrefixReplaced(image_ref, LoadedRules[2])
    /\ redirect.redirected = PrefixReplaced(image_ref, LoadedRules[1])
    /\ Cardinality(Occurrences(image_ref, LoadedRules[1].source)) > 1

(***************************************************************************)
(* Properties of the fallback of scan_image_trivy.                         *)
(***************************************************************************)
Steps(cs) == [i \in 1..Len(cs) |-> cs[i].step]

\* scan_image_trivy has returned after a pull that failed
PullFailed ==
    /\ prog = "scan_cves"
    /\ pc = "record"
    /\ \E i \in 1..Len(calls) :
          calls[i].step = "pull" /\ calls[i].outcome \in {"nonzero", "timeout"}

\* C18: when the pull fails, by non-zero exit or by timeout, no local-store scan
\* is attempted, the scan result is failure, and the artifact of the image names
\* the pull failure
C18_PullFailureIsTerminal ==
    PullFailed
        => /\ \A i \in 1..Len(calls) : calls[i].step # "local"
           /\ scan_result = FALSE
           /\ reports[CurrentScanFile].note = "Failed to pull image"

\* C19: for one image the invocations are a remote scan, then a pull, then a
\* local-store scan, each at most once and in this order; the pull follows a
\* remote scan that did not succeed, the local-store scan a pull that succeeded
C19_OneFallback ==
    prog = "scan_cves"
        => /\ Len(calls) <= 3
           /\ Steps(calls) = SubSeq(<<"remote", "pull", "local">>, 1, Len(calls))
           /\ Len(calls) >= 2 => calls[1].outcome # "ok"
           /\ Len(calls) = 3 => calls[2].outcome = "ok"
           /\ (pc = "record" /\ calls[1].outcome = "ok") => (Len(calls) = 1 /\ scan_result)

C19_Witness ==
    /\ prog = "scan_cves"
    /\ pc = "record"
    /\ Steps(calls) = <<"remote", "pull", "local">>
    /\ calls[3].outcome = "ok"
    /\ scan_result

(***************************************************************************)
(* Properties of the reporting-only commands.                              *)
(***************************************************************************)
\* C20: check_dummy_shas, list_images and image_report exit 0 whenever the
\* manifest directory exists and holds at least one manifest file, whatever
\* the digests of the manifests are
C20_ReportingExitsZero ==
    (report_pc = "exit" /\ report_dir /\ report_manifests # <<>>) => report_exit = 0

(***************************************************************************)
(* Images of the current manifest whose current scan failed.               *)
(***************************************************************************)
\* keys the current result list declares with no successful scan (status 'failed':
\* artifact missing or not parseable, slack main lines 900-905 and 913-917)
FailedDeclared ==
    {current_results[i].image :
        i \in {j \in 1..Len(current_results) : current_results[j].status = "failed"}}
      \ CurrentKeySet

\* C25: an image still declared in the current manifest whose current scan failed
\* is never listed in removed_components, and its previous counts are not
\* subtracted into net_change.
C25_FailedScanIsNotRemoved ==
    (cmp_pc = "done" /\ ~IsNone(comparison)) =>
        /\ FailedDeclared \cap Listed(comparison, "removed_components") = {}
        /\ \A f \in {"critical", "high", "total"} :
              comparison.net_change[f] =
                  SumOver(CurrentKeySet, "current", f)
                    - SumOver(PreviousKeySet \ FailedDeclared, "previous", f)

(***************************************************************************)
(* The five lists of a comparison.                                         *)
(***************************************************************************)
\* the image of every entry of improved / worsened, in list order
ImagesOf(entries) == [i \in 1..Len(entries) |-> entries[i].image]

\* every key the comparison lists, list after list
AllListed(cmp) ==
    cmp.new_components \o cmp.removed_components \o ImagesOf(cmp.improved)
      \o ImagesOf(cmp.worsened) \o cmp.unchanged

\* the keys of both inputs are partitioned by the lists of cmp (None lists nothing)
PartitionsKeys(cmp) ==
    LET all == IF IsNone(cmp) THEN <<>> ELSE AllListed(cmp)
    IN  /\ \A k \in CurrentKeySet \cup PreviousKeySet :
              Cardinality({i \in 1..Len(all) : all[i] = k}) = 1
        /\ SeqRange(all) \subseteq CurrentKeySet \cup PreviousKeySet
        /\ \A e \in Listed(cmp, "improved") : e.delta < 0
        /\ \A e \in Listed(cmp, "worsened") : e.delta > 0

\* C29, as stated: every result of compare_scan_results partitions the keys: each
\* key of current or previous appears in exactly one of new_components,
\* removed_components, improved, worsened, unchanged, no key appears twice and no
\* key outside the two inputs appears; every improved entry has delta < 0 and
\* every worsened entry has delta > 0.
C29_AsStated == cmp_pc = "done" => PartitionsKeys(comparison)

\* C29, amended: when previous holds at least one key, the call returns a
\* comparison that partitions the keys: each key of current or previous appears in
\* exactly one of the five lists, and there once, no key outside the two inputs
\* appears, every improved entry has delta < 0 and every worsened entry has
\* delta > 0; when previous is empty the call returns None and lists no key.
C29_Partition ==
    cmp_pc = "done" =>
        IF PreviousKeySet = {} THEN IsNone(comparison)
        ELSE ~IsNone(comparison) /\ PartitionsKeys(comparison)

\* one key worsened, the other new; or a key the result list names twice
C29_Witness ==
    /\ cmp_pc = "done"
    /\ ~IsNone(comparison)
    /\ \/ comparison.worsened # <<>> /\ comparison.new_components # <<>>
       \/ /\ Len(current_results) = 2
          /\ current_results[1].image = current_results[2].image
          /\ current_results[1].status = "success"
          /\ current_results[2].status = "success"
          /\ comparison.improved # <<>>
          /\ comparison.removed_components # <<>>

(***************************************************************************)
(* The two structured parsers on one artifact.                             *)
(***************************************************************************)
BothParsed == {"parse_trivy_json", "parse_trivy_json_for_counts"} \subseteq parse_pc

\* C27: parse_trivy_json and parse_trivy_json_for_counts accept or reject the same
\* artifacts, and for an artifact both accept they return the same critical, high,
\* medium, low and total counts.
C27_ParsersAgree ==
    BothParsed =>
        /\ IsNone(cve_data) <=> IsNone(vuln_data)
        /\ (~IsNone(cve_data) /\ ~IsNone(vuln_data)) =>
              \A f \in {"critical", "high", "medium", "low", "total"} :
                  cve_data[f] = vuln_data[f]

(***************************************************************************)
(* The image loop of scan_cves and verify_images.                          *)
(***************************************************************************)
\* the loop over the images of manifest file_idx is running or has just ended
InImageLoop ==
    pc \in {"image", "remote", "pull", "local", "skopeo", "podman_inspect",
            "podman_pull", "record", "footer"}

\* the keys of the first n records of the manifest, in manifest order
FirstKeys(n) == [i \in 1..n |-> manifests[file_idx].images[i].image_key]

\* C30: images are handled one at a time in manifest order and each is counted
\* exactly once: after every processed image scanned + failed = total (passed +
\* failed = total) and the result rows are those of the images processed so far,
\* in manifest order; when the manifest is finished total is the number of its
\* image records.
C30_EachImageCountedOnce ==
    InImageLoop =>
        /\ scanned + failed = total_images
        /\ total_images = img_idx - 1
        /\ total_images <= Len(manifests[file_idx].images)
        /\ pc = "footer" => total_images = Len(manifests[file_idx].images)
        /\ Len(results) = total_images
        /\ ImagesOf(results) = FirstKeys(total_images)
        /\ ImagesOf(summaries[file_idx].lines) = FirstKeys(total_images)

\* a manifest of two images is finished, one image passed and one failed
C30_Witness ==
    /\ pc = "footer"
    /\ Len(manifests[file_idx].images) = 2
    /\ total_images = 2
    /\ scanned = 1
    /\ failed = 1
    /\ results[1].image # results[2].image

(***************************************************************************)
(* The listing of list_images against the classification of                *)
(* check_dummy_shas.                                                       *)
(***************************************************************************)
\* the classifier's verdict on the digest of one record (a string digest)
ClassOf(image) == IssueType(GetDigest(image).text)

\* the records of one manifest the classifier files under one verdict
RecordsOfClass(images, type) == {i \in 1..Len(images) : ClassOf(images[i]) = type}

\* the manifest files list_images has printed a table for
ListedFiles ==
    {f \in 1..Len(report_manifests) :
        report_prog = "list_images" /\ f < report_idx /\ report_out[f].kind = "table"}

\* C24: the listing agrees with the classifier on every image record: a record
\* whose digest the classifier flags as Placeholder carries the warning indicator
\* and is counted under Placeholders, a record whose digest is Valid is marked
\* clean and is counted under Real SHAs.
C24_ListingAgreesWithClassifier ==
    \A f \in ListedFiles :
        LET images == report_manifests[f].images
            placeholders == RecordsOfClass(images, "DUMMY/PLACEHOLDER")
            valid == RecordsOfClass(images, "none")
        IN  /\ \A i \in placeholders : report_out[f].status_icons[i] = "warning"
            /\ \A i \in valid : report_out[f].status_icons[i] = "ok"
            /\ report_out[f].dummy_count >= Cardinality(placeholders)
            /\ report_out[f].real_count >= Cardinality(valid)

(***************************************************************************)
(* image_report over several manifest files.                               *)
(***************************************************************************)
\* C26: in image_report, when a manifest file cannot be read or parsed the command
\* skips that file and goes on to every remaining manifest file: at the end of the
\* run every readable manifest has its report written, and the run finishes
\* normally (exit code 0).
C26_UnreadableFileIsSkipped ==
    (report_prog = "image_report" /\ report_pc = "exit"
       /\ \E f \in 1..Len(report_manifests) : ~report_manifests[f].readable) =>
        /\ report_exit = 0
        /\ \A f \in 1..Len(report_manifests) :
              report_manifests[f].readable => report_out[f].kind = "report"

(***************************************************************************)
(* The name of a scan artifact: scan_cves writes                           *)
(* {base_name}_{image_key}_trivy.{ext}, load_previous_scan_results reads   *)
(* the image key back from the name.  A name is the sequence of its        *)
(* characters; "trivy.json" and "trivy.txt" are one piece each.            *)
(***************************************************************************)
\* longest version and longest image key of the model, in characters
MaxVersionLen == 2

MaxKeyLen == 3

VersionChars == {"2", "."}

KeyChars == {"2", ".", "_", "k", "trivy.json"}

\* str.endswith
EndsWith(text, suffix) ==
    /\ Len(suffix) <= Len(text)
    /\ SubSeq(text, Len(text) - Len(suffix) + 1, Len(text)) = suffix

\* str.replace(old, new): every occurrence, left to right, without overlap
RECURSIVE ReplaceAll(_, _, _)
ReplaceAll(text, old, new) ==
    IF Len(text) < Len(old) THEN text
    ELSE IF StartsWith(text, old)
    THEN new \o ReplaceAll(SubSeq(text, Len(old) + 1, Len(text)), old, new)
    ELSE <<Head(text)>> \o ReplaceAll(Tail(text), old, new)

\* f"{version}_" and "_trivy.json"
VersionPrefix(version) == version \o <<"_">>

TrivySuffix == <<"_", "trivy.json">>

\* scan_cves.py lines 362-367: the file name f"{base_name}_{image_key}_trivy.{ext}"
ArtifactName(base_name, key, ext) ==
    base_name \o <<"_">> \o key
      \o <<"_", IF ext = "json" THEN "trivy.json" ELSE "trivy.txt">>

\* slack_cve_report.py line 46: the name matches the pattern {version}_*_trivy.json
GlobMatches(filename, version) ==
    /\ StartsWith(filename, VersionPrefix(version))
    /\ EndsWith(filename, TrivySuffix)
    /\ Len(filename) >= Len(VersionPrefix(version)) + Len(TrivySuffix)

\* slack_cve_report.py line 55
ExtractKey(filename, version) ==
    ReplaceAll(ReplaceAll(filename, VersionPrefix(version), <<>>), TrivySuffix, <<>>)

NamingInit ==
    /\ CmpIdle
    /\ ParseIdle
    /\ RunIdle
    /\ DigestIdle /\ RedirectIdle /\ ReportIdle /\ SlackIdle
    /\ \E n \in 1..MaxVersionLen : name_version \in [1..n -> VersionChars]
    /\ \E n \in 0..MaxKeyLen : name_key \in [1..n -> KeyChars]
    /\ name_ext \in {"json", "txt"}
    /\ scan_file = NoneVal
    /\ extracted_key = NoneVal
    /\ naming_pc = "input"

\* scan_cves.py lines 362-367 and 93-169: the artifact of one image is written
NameArtifact ==
    /\ naming_pc = "input"
    /\ scan_file' = Str(ArtifactName(name_version, name_key, name_ext))
    /\ naming_pc' = "written"
    /\ UNCHANGED <<name_version, name_key, name_ext, extracted_key, cmpVars, parseVars,
                   runVars, digestVars, redirectVars, reportVars, slackVars>>

\* slack_cve_report.py lines 46-59: the file is found by the pattern and filed
\* under the key taken from its name (None: the pattern does not find it)
LoadPrevious ==
    /\ naming_pc = "written"
    /\ extracted_key' =
         IF /\ GlobMatches(scan_file.text, name_version)
            /\ StartsWith(scan_file.text, VersionPrefix(name_version))
            /\ EndsWith(scan_file.text, TrivySuffix)
         THEN Str(ExtractKey(scan_file.text, name_version))
         ELSE NoneVal
    /\ naming_pc' = "loaded"
    /\ UNCHANGED <<name_version, name_key, name_ext, scan_file, cmpVars, parseVars,
                   runVars, digestVars, redirectVars, reportVars, slackVars>>

NamingNext == NameArtifact \/ LoadPrevious

SpecNaming == NamingInit /\ [][NamingNext]_vars

\* C28: artifact naming round-trips: for every release version and image key, the
\* key load_previous_scan_results extracts from the name of the JSON artifact
\* scan_cves wrote equals the original image key.
C28_KeyRoundTrips ==
    (naming_pc = "loaded" /\ name_ext = "json") => extracted_key = Str(name_key)

(***************************************************************************)
(* slack_cve_report.create_slack_message.                                  *)
(* A text is modelled by its length in characters (as len() counts the     *)
(* literals of the source file) and by whether it ends with the            *)
(* truncation notice; only section blocks carry a modelled text.           *)
(***************************************************************************)
\* lines 477 and 489: the limit of a section text; lines 478 and 491: the
\* characters kept, and the length of the notice appended to them
SectionCap == 3000

KeptChars == 2950

NoticeLen == 47

\* len(datetime.now().strftime('%Y-%m-%d %H:%M')), line 302
ScanTimeLen == 16

\* length of every VulnerabilityID of the model ("CVE-2024-12345")
CveIdLen == 14

\* lengths of the image keys of the model, and of a full image reference
\* (0: the image has no entry in image_details)
NameLens == {12, 1600}

RefLens == {0, 120}

Text(n) == [len |-> n, notice |-> FALSE]

\* lines 477-478 and 489-491
Truncate(t) ==
    IF t.len > SectionCap THEN [len |-> KeptChars + NoticeLen, notice |-> TRUE] ELSE t

\* len(str(n)) for n >= 0, and len(f"{n:+d}")
Digits(n) == IF n < 10 THEN 1 ELSE IF n < 100 THEN 2 ELSE IF n < 1000 THEN 3 ELSE 4

Abs(n) == IF n < 0 THEN -n ELSE n

Signed(n) == 1 + Digits(Abs(n))

\* sorted(s, key=..., reverse=...): Before(a, b) when a's key sorts strictly
\* before b's; elements with equal keys keep their order
StableSort(s, Before(_, _)) ==
    LET Pos(i) == 1 + Cardinality({j \in 1..Len(s) :
                        /\ j # i
                        /\ \/ Before(s[j], s[i])
                           \/ ~Before(s[i], s[j]) /\ j < i})
    IN  [p \in 1..Len(s) |-> s[CHOOSE i \in 1..Len(s) : Pos(i) = p]]

FirstN(s, n) == SubSeq(s, 1, Min(Len(s), n))

Block(type, t) == [type |-> type, text |-> t]

Section(t) == Block("section", t)

Divider == Block("divider", Text(0))

\* r.get('cve_count') is truthy
HasCounts(r) == ~IsNone(r.cve_count)

\* lines 269-273
CountStatus(rs, status) == Cardinality({i \in 1..Len(rs) : rs[i].status = status})

TotalOf(rs, field) ==
    SumSeq([i \in 1..Len(rs) |-> IF HasCounts(rs[i]) THEN rs[i].cve_count[field] ELSE 0])

\* int(total_failed/(total_scanned+total_failed)*100), lines 304 and 581
FailurePct(rs) == (CountStatus(rs, "failed") * 100)
                     \div (CountStatus(rs, "success") + CountStatus(rs, "failed"))

\* lines 279-283
TopImpacted(rs) ==
    LET HasCritical(r) == HasCounts(r) /\ r.cve_count.critical > 0
        Before(a, b) ==
            \/ a.cve_count.critical > b.cve_count.critical
            \/ /\ a.cve_count.critical = b.cve_count.critical
               /\ a.cve_count.high > b.cve_count.high
    IN  FirstN(StableSort(SelectSeq(rs, HasCritical), Before), 10)

\* lines 298-306: scan time and images scanned
ScanSection(rs) ==
    Section(Text(62 + ScanTimeLen + Digits(CountStatus(rs, "success"))
                   + Digits(CountStatus(rs, "failed"))
                   + (IF CountStatus(rs, "failed") > 10
                      THEN 23 + Digits(FailurePct(rs)) ELSE 0)))

\* lines 307-315: total vulnerabilities
TotalsSection(rs) ==
    Section(Text(60 + Digits(TotalOf(rs, "total")) + Digits(TotalOf(rs, "critical"))
                   + Digits(TotalOf(rs, "high"))))

\* lines 322-377: the CVE trends section
TrendSection(cmp) ==
    LET net == cmp.net_change
        Count(n, lit) == IF n > 0 THEN lit + Digits(n) ELSE 0
    IN  Section(Text(
            35 + (IF net.critical = 0 THEN 5 ELSE 4)
               + (IF net.total = 0 THEN 36 ELSE 20 + Signed(net.total))
               + (IF net.critical # 0 THEN 18 + Signed(net.critical) ELSE 0)
               + (IF net.high # 0 THEN 14 + Signed(net.high) ELSE 0)
               + Count(Len(cmp.improved), 34)
               + Count(Len(cmp.worsened), 36)
               + Count(Len(cmp.new_components), 30)
               + Count(Len(cmp.removed_components), 33)))

\* lines 563-590: risk assessment
RiskSection(rs) ==
    LET total_critical == TotalOf(rs, "critical")
        level == IF total_critical > 10 THEN 4 ELSE IF total_critical > 0 THEN 6 ELSE 3
    IN  Section(Text(
            20 + 4 + 35 + level
               + (IF total_critical > 0 THEN 63 + Digits(total_critical) ELSE 0)
               + (IF CountStatus(rs, "failed") > 20
                  THEN 50 + Digits(FailurePct(rs)) ELSE 0)))

\* lines 592-616: recommended actions
ActionSection(rs, nlen) ==
    LET top == TopImpacted(rs)
    IN  Section(Text(
            28 + (IF CountStatus(rs, "failed") > 10
                  THEN 60 + Digits(CountStatus(rs, "failed")) ELSE 0)
               + (IF TotalOf(rs, "critical") > 5 THEN 60 ELSE 0)
               + (IF top # <<>> THEN 51 + nlen[top[1].image] ELSE 0)
               + 48
               + (IF TotalOf(rs, "high") > 50 THEN 53 ELSE 0)))

\* lines 289-319, 322-378 and 560-635: the blocks of the main message
MainBlocks(rs, nlen, cmp) ==
    <<Block("header", Text(0)), ScanSection(rs), TotalsSection(rs), Divider>>
      \o (IF ~IsNone(cmp) THEN <<TrendSection(cmp), Divider>> ELSE <<>>)
      \o <<Divider, RiskSection(rs), ActionSection(rs, nlen)>>
      \o (IF TotalOf(rs, "critical") > 0 \/ CountStatus(rs, "failed") > 10
          THEN <<Divider, Block("context", Text(0))>> ELSE <<>>)

\* lines 389-437: the text of one top impacted component
TopEntryLen(img, nlen, rlen) ==
    LET cve == img.cve_count
        first5 == FirstN(cve.details, 5)
        IsCritical(d) == d.severity = "CRITICAL"
        links == IF SelectSeq(cve.details, IsCritical) # <<>>
                 THEN Len(SelectSeq(first5, IsCritical)) * (4 + 33 + CveIdLen + CveIdLen) + 1
                 ELSE 0
        total == cve.has_fix + cve.no_fix
        remediation == IF total = 0 THEN 19
                       ELSE IF cve.has_fix = total THEN 21 + Digits(total)
                       ELSE IF cve.has_fix > 0 THEN 20 + Digits(cve.has_fix) + Digits(total)
                       ELSE 21
    IN  (9 + nlen[img.image]) + (13 + Digits(cve.critical) + Digits(cve.high))
          + (3 + rlen) + links + (remediation + 1) + 58

\* lines 381-437: plain_text, empty when no component has a CRITICAL CVE
TopImpactedText(rs, nlen, rlen) ==
    LET top == TopImpacted(rs)
        HasCritical(r) == HasCounts(r) /\ r.cve_count.critical > 0
        with_critical == Len(SelectSeq(rs, HasCritical))
    IN  IF top = <<>> THEN Text(0)
        ELSE Text((IF with_critical > 10 THEN 63 + Digits(with_critical)
                   ELSE 54 + Digits(Len(top)))
                  + SumSeq([i \in 1..Len(top) |-> TopEntryLen(top[i], nlen, rlen)]))

\* lines 440-465: all_components_text (a result of slack main is a success that
\* carries counts, or a failure)
AllComponentsText(rs, nlen) ==
    LET LineLen(comp) ==
            IF comp.status = "success" /\ HasCounts(comp)
            THEN 24 + 4 + nlen[comp.image] + Digits(comp.cve_count.total)
                    + Digits(comp.cve_count.critical) + Digits(comp.cve_count.high)
            ELSE 17 + nlen[comp.image]
    IN  Text(49 + Digits(Len(rs)) + SumSeq([i \in 1..Len(rs) |-> LineLen(rs[i])]))

\* lines 510-515 and 523-528: the lines of the ten first entries, and the line
\* that counts the others
ChangeLinesLen(entries, nlen) ==
    LET LineLen(comp) ==
            17 + nlen[comp.image] + Digits(comp.previous) + Digits(comp.current)
               + Signed(comp.delta)
               + (IF comp.curr_critical - comp.prev_critical # 0
                  THEN 8 + Signed(comp.curr_critical - comp.prev_critical) ELSE 0)
        shown == FirstN(entries, 10)
    IN  SumSeq([i \in 1..Len(shown) |-> LineLen(shown[i])])
          + (IF Len(entries) > 10 THEN 16 + Digits(Len(entries) - 10) ELSE 0)

\* lines 534-537 and 543-546
KeyLinesLen(keys, nlen) ==
    LET shown == FirstN(keys, 10)
    IN  SumSeq([i \in 1..Len(shown) |-> 7 + nlen[shown[i]]])
          + (IF Len(keys) > 10 THEN 16 + Digits(Len(keys) - 10) ELSE 0)

\* lines 503-546: comparison_details
ComparisonDetailsText(cmp, nlen) ==
    LET Worse(a, b) == a.delta > b.delta
        Better(a, b) == a.delta < b.delta
    IN  Text((IF cmp.worsened # <<>>
              THEN 29 + ChangeLinesLen(StableSort(cmp.worsened, Worse), nlen) + 1 ELSE 0)
           + (IF cmp.improved # <<>>
              THEN 27 + ChangeLinesLen(StableSort(cmp.improved, Better), nlen) + 1 ELSE 0)
           + (IF cmp.new_components # <<>>
              THEN 23 + KeyLinesLen(cmp.new_components, nlen) + 1 ELSE 0)
           + (IF cmp.removed_components # <<>>
              THEN 26 + KeyLinesLen(cmp.removed_components, nlen) ELSE 0))

ThreadMessage(part, t) == [part |-> part, blocks |-> <<Section(t)>>]

\* lines 472-555 and 641-647: the thread replies
ThreadMessages(rs, nlen, rlen, cmp) ==
    LET plain_text == TopImpactedText(rs, nlen, rlen)
        details == IF IsNone(cmp) THEN Text(0) ELSE ComparisonDetailsText(cmp, nlen)
    IN  (IF details.len > 0 THEN <<ThreadMessage("comparison", details)>> ELSE <<>>)
          \o (IF plain_text.len > 0
              THEN <<ThreadMessage("top_impacted", Truncate(plain_text))>> ELSE <<>>)
          \o <<ThreadMessage("all_components", Truncate(AllComponentsText(rs, nlen)))>>

\* lines 669-700: the two sections of one image in the detailed format
DetailedSections(result, nlen) ==
    LET cve == result.cve_count
        shown == FirstN(cve.details, 5)
        LineLen(d) == 9 + CveIdLen + (IF d.severity = "CRITICAL" THEN 8 ELSE 4) + d.title
        cve_list == SumSeq([i \in 1..Len(shown) |-> LineLen(shown[i])])
                      + (Len(shown) - 1)
    IN  IF result.status # "success" \/ ~HasCounts(result) THEN <<>>
        ELSE IF cve.total = 0 THEN <<>>
        ELSE <<Section(Text(47 + 4 + nlen[result.image] + Digits(cve.total)
                              + Digits(cve.critical) + Digits(cve.high)
                              + Digits(cve.medium) + Digits(cve.low)))>>
               \o (IF cve.details # <<>> THEN <<Section(Text(6 + cve_list))>> ELSE <<>>)

RECURSIVE DetailedBlocks(_, _)
DetailedBlocks(rs, nlen) ==
    IF rs = <<>> THEN <<>>
    ELSE DetailedSections(Head(rs), nlen) \o DetailedBlocks(Tail(rs), nlen)

\* lines 251-702
create_slack_message(rs, format, nlen, rlen, threaded, cmp) ==
    IF format = "summary"
    THEN IF threaded
         THEN [kind    |-> "threaded",
               main    |-> MainBlocks(rs, nlen, cmp),
               threads |-> ThreadMessages(rs, nlen, rlen, cmp)]
         ELSE [kind |-> "blocks", blocks |-> MainBlocks(rs, nlen, cmp)]
    ELSE [kind |-> "blocks",
          blocks |-> <<Block("header", Text(0))>> \o DetailedBlocks(rs, nlen)]

(***************************************************************************)
(* slack_cve_report: main() from the results to the exit status, with      *)
(* send_to_slack and send_to_slack_threaded.                               *)
(***************************************************************************)
\* the artifacts of the images of a report: no finding, one CRITICAL finding
\* with a fix, one HIGH finding without
SlackArtifacts ==
    {SplitArtifact(<<>>, 0),
     SplitArtifact(<<[Severity |-> "CRITICAL", FixedVersion |-> "1.0", Title |-> 5]>>, 0),
     SplitArtifact(<<[Severity |-> "HIGH", FixedVersion |-> "", Title |-> TitleCap + 10]>>, 0)}

\* slack main, lines 892-917: the result of the image with key k
SlackRows(k) ==
    {SuccessResult(k, parse_trivy_json(a)) : a \in SlackArtifacts} \cup {FailedResult(k)}

\* the result lists of a manifest that holds the first n keys
SlackResultLists ==
    UNION {{rs \in [1..n -> UNION {SlackRows(k) : k \in Keys}] :
                \A i \in 1..n : rs[i].image = KeyOrder[i]} : n \in 0..Len(KeyOrder)}

\* what load_previous_scan_results gives: nothing, or counts for some keys
SlackPrevious ==
    {DictEmpty} \cup
    {DictOf(S, f) : S \in (SUBSET Keys) \ {{}},
                    f \in [Keys -> {CveCount(0, 0, 0, 0), CveCount(1, 0, 0, 0)}]}

\* the answers of chat.postMessage (lines 764-769 and 800-809): accepted with the
\* timestamp of the new message, rejected ("ok": false), or no answer at all
\* (URLError, timeout, a body that is no JSON)
Timestamps == {"1730800000.000100", "1730800000.000200"}

ApiResponses ==
    {[raised |-> FALSE, ok |-> TRUE, ts |-> Str(ts)] : ts \in Timestamps}
      \cup {[raised |-> FALSE, ok |-> FALSE, ts |-> NoneVal],
            [raised |-> TRUE, ok |-> FALSE, ts |-> NoneVal]}

\* the answers of the webhook (lines 719-730): a status, or urlopen raises
\* (HTTPError for a status of 400 and above, URLError, timeout)
WebhookResponses ==
    {[raised |-> FALSE, status |-> 200], [raised |-> FALSE, status |-> 204],
     [raised |-> TRUE, status |-> 400], [raised |-> TRUE, status |-> 0]}

\* variant of PostAccepted: the "ok" field of the answer is not looked at
PostAcceptedUnchecked(response) == ~response.raised

\* lines 767 and 803: the post goes on unless the call raised or "ok" is false
PostAccepted(response) == ~response.raised /\ response.ok

\* lines 719-730: send_to_slack returns True
WebhookAccepted(response) == ~response.raised /\ response.status = 200

\* variant of ExitStatus: the value of the send function is ignored
ExitStatusIgnoresSend(sent) == 0

\* slack main, lines 945-956: sys.exit(1) when the send function returns False
ExitStatus(sent) == IF sent THEN 0 ELSE 1

\* one request made to Slack, with what came back
Post(kind, thread_ts, blocks, response) ==
    [kind |-> kind, thread_ts |-> thread_ts, blocks |-> blocks, response |-> response]

SlackInit ==
    /\ ParseIdle
    /\ RunIdle
    /\ DigestIdle /\ RedirectIdle /\ ReportIdle /\ NamingIdle
    /\ current_results \in SlackResultLists
    /\ previous_results \in SlackPrevious
    /\ comparison = NoneVal
    /\ reverse = NoneVal
    /\ cmp_pc = "idle"
    /\ send_mode \in {"threaded", "webhook", "none"}
    /\ slack_format \in {"summary", "detailed"}
    /\ name_len \in [Keys -> NameLens]
    /\ ref_len \in RefLens
    /\ message_data = NoneVal
    /\ posts = <<>>
    /\ parent_ts = NoneVal
    /\ send_pc = "start"
    /\ send_exit = -1

\* slack main, lines 833-844 and 919-943: the mode, the comparison and the message;
\* in threaded mode message_data['main'] raises KeyError for the detailed format
PrepareMessage ==
    /\ send_pc = "start"
    /\ IF send_mode = "none"
       THEN /\ send_pc' = "exit"
            /\ send_exit' = 1
            /\ UNCHANGED <<comparison, message_data>>
       ELSE LET cmp == IF Truthy(previous_results)
                       THEN compare_scan_results(current_results, previous_results)
                       ELSE NoneVal
                msg == create_slack_message(current_results, slack_format, name_len,
                                            ref_len, send_mode = "threaded", cmp)
            IN  /\ comparison' = cmp
                /\ message_data' = msg
                /\ IF send_mode = "threaded" /\ msg.kind # "threaded"
                   THEN send_pc' = "exit" /\ send_exit' = 1
                   ELSE /\ send_pc' = IF send_mode = "threaded" THEN "main" ELSE "webhook"
                        /\ UNCHANGED send_exit
    /\ UNCHANGED <<current_results, previous_results, reverse, cmp_pc, send_mode,
                   slack_format, name_len, ref_len, posts, parent_ts, parseVars, runVars,
                   digestVars, redirectVars, reportVars, namingVars>>

\* send_to_slack, lines 705-730, and slack main, lines 952-956
PostWebhook ==
    /\ send_pc = "webhook"
    /\ \E response \in WebhookResponses :
         /\ posts' = Append(posts, Post("webhook", AbsentKey, message_data.blocks, response))
         /\ send_exit' = ExitStatus(WebhookAccepted(response))
    /\ send_pc' = "exit"
    /\ UNCHANGED <<cmpVars, send_mode, slack_format, name_len, ref_len, message_data,
                   parent_ts, parseVars, runVars, digestVars, redirectVars, reportVars,
                   namingVars>>

\* send_to_slack_threaded, lines 745-773: the main message
PostMain ==
    /\ send_pc = "main"
    /\ \E response \in ApiResponses :
         /\ posts' = Append(posts, Post("main", AbsentKey, message_data.main, response))
         /\ IF PostAccepted(response)
            THEN /\ parent_ts' = response.ts
                 /\ send_pc' = "replies"
                 /\ UNCHANGED send_exit
            ELSE /\ send_pc' = "exit"
                 /\ send_exit' = ExitStatus(FALSE)
                 /\ UNCHANGED parent_ts
    /\ UNCHANGED <<cmpVars, send_mode, slack_format, name_len, ref_len, message_data,
                   parseVars, runVars, digestVars, redirectVars, reportVars, namingVars>>

\* send_to_slack_threaded, lines 776-811: the next thread reply
PostReply ==
    /\ send_pc = "replies"
    /\ Len(posts) <= Len(message_data.threads)
    /\ \E response \in ApiResponses :
         /\ posts' = Append(posts, Post("reply", parent_ts,
                                        message_data.threads[Len(posts)].blocks, response))
         /\ IF PostAccepted(response)
            THEN UNCHANGED <<send_pc, send_exit>>
            ELSE send_pc' = "exit" /\ send_exit' = ExitStatus(FALSE)
    /\ UNCHANGED <<cmpVars, send_mode, slack_format, name_len, ref_len, message_data,
                   parent_ts, parseVars, runVars, digestVars, redirectVars, reportVars,
                   namingVars>>

\* send_to_slack_threaded, line 813, and slack main, lines 945-946
ThreadedReturns ==
    /\ send_pc = "replies"
    /\ Len(posts) > Len(message_data.threads)
    /\ send_pc' = "exit"
    /\ send_exit' = ExitStatus(TRUE)
    /\ UNCHANGED <<cmpVars, send_mode, slack_format, name_len, ref_len, message_data,
                   posts, parent_ts, parseVars, runVars, digestVars, redirectVars,
                   reportVars, namingVars>>

SlackNext == PrepareMessage \/ PostWebhook \/ PostMain \/ PostReply \/ ThreadedReturns

SpecSlack == SlackInit /\ [][SlackNext]_vars

(***************************************************************************)
(* Properties of the delivery of the chat message.                         *)
(***************************************************************************)
\* Slack did not take the post: no answer, a status other than 200 from the
\* webhook, or "ok": false from chat.postMessage
Refused(post) ==
    \/ post.response.raised
    \/ IF post.kind = "webhook" THEN post.response.status # 200 ELSE ~post.response.ok

\* the number of posts of a complete delivery
ExpectedPosts == IF send_mode = "threaded" THEN 1 + Len(message_data.threads) ELSE 1

DeliveryFailed == \E i \in 1..Len(posts) : Refused(posts[i])

DeliverySucceeded ==
    /\ Len(posts) = ExpectedPosts
    /\ \A i \in 1..Len(posts) : ~Refused(posts[i])

\* C21: once the command has tried to deliver the message, it exits non-zero
\* whenever the delivery failed (the webhook call, or any post of the threaded
\* sequence, was rejected or raised) and exits 0 when the delivery succeeded,
\* whatever the findings are.
C21_ExitFollowsDelivery ==
    (send_pc = "exit" /\ posts # <<>>) =>
        /\ DeliveryFailed \/ DeliverySucceeded
        /\ DeliveryFailed => send_exit # 0
        /\ DeliverySucceeded => send_exit = 0

\* no image has a finding, the main message was accepted, a reply was rejected
C21_Witness ==
    /\ send_pc = "exit"
    /\ send_mode = "threaded"
    /\ current_results # <<>>
    /\ TotalOf(current_results, "total") = 0
    /\ Len(posts) >= 2
    /\ ~Refused(posts[1])
    /\ Refused(posts[Len(posts)])
    /\ send_exit = 1

(***************************************************************************)
(* Properties of the built message.                                        *)
(***************************************************************************)
SectionsOf(blocks) == {blocks[i] : i \in {j \in 1..Len(blocks) : blocks[j].type = "section"}}

\* every section block of the payloads of the message
MessageSections ==
    IF IsNone(message_data) THEN {}
    ELSE IF message_data.kind = "threaded"
    THEN SectionsOf(message_data.main)
           \cup UNION {SectionsOf(message_data.threads[i].blocks) :
                          i \in 1..Len(message_data.threads)}
    ELSE SectionsOf(message_data.blocks)

\* the text of a thread reply before any truncation
FullText(part) ==
    IF part = "comparison" THEN ComparisonDetailsText(comparison, name_len)
    ELSE IF part = "top_impacted" THEN TopImpactedText(current_results, name_len, ref_len)
    ELSE AllComponentsText(current_results, name_len)

\* C22: every section block of a payload built by create_slack_message, in the
\* main message and in each thread reply (comparison details, top impacted, all
\* components), carries at most 3000 characters of text; a text that would exceed
\* the cap is truncated and ends with the truncation notice.
C22_SectionTextsCapped ==
    /\ \A b \in MessageSections : b.text.len <= SectionCap
    /\ (~IsNone(message_data) /\ message_data.kind = "threaded") =>
          \A i \in 1..Len(message_data.threads) :
              FullText(message_data.threads[i].part).len > SectionCap =>
                  message_data.threads[i].blocks[1].text.notice

(***************************************************************************)
(* Properties of the threaded sequence of posts.                           *)
(***************************************************************************)
\* C23: in threaded mode the posts form an ordered sequence: the main message is
\* posted first; a thread reply is posted only after the main message was
\* accepted, carries the main message's timestamp as its thread, and the replies
\* go out in the order of the message; once a post is rejected no later post is
\* made and the send reports failure (the command exits non-zero).
C23_ThreadedSequence ==
    send_mode = "threaded" =>
        /\ posts # <<>> =>
              /\ posts[1].kind = "main"
              /\ posts[1].thread_ts = AbsentKey
              /\ posts[1].blocks = message_data.main
        /\ \A i \in 2..Len(posts) :
              /\ posts[i].kind = "reply"
              /\ ~Refused(posts[1])
              /\ posts[i].thread_ts = posts[1].response.ts
              /\ posts[i].blocks = message_data.threads[i - 1].blocks
        /\ \A i \in 1..(Len(posts) - 1) : ~Refused(posts[i])
        /\ DeliveryFailed => (send_pc = "exit" /\ send_exit # 0)

\* two replies were posted under the main message's timestamp, the first one
\* accepted under a timestamp of its own, the second one rejected
C23_Witness ==
    /\ send_mode = "threaded"
    /\ Len(posts) = 3
    /\ Len(message_data.threads) = 3
    /\ posts[2].response.ts # posts[1].response.ts
    /\ ~Refused(posts[2])
    /\ Refused(posts[3])
    /\ send_pc = "exit"

====
